---- MODULE Spec2Model ----
(***************************************************************************)
(* A model of cx-attach: the auto-generation of a simulation spec from      *)
(* VirtualNetwork and Interface resources (cx_attach/auto.py), the spec     *)
(* validator (cx_attach/specs.py) and the apply/remove workflow             *)
(* (cx_attach/topology.py).                                                 *)
(*                                                                          *)
(* Python strings whose characters matter (selectors, label keys, names,    *)
(* VLAN ids) are sequences of one-character strings, so that split, strip,  *)
(* lower, replace and lexicographic comparison are computed and not         *)
(* assumed.  An optional value is a sequence of length 0 (None) or 1.       *)
(***************************************************************************)
EXTENDS Integers, Sequences, FiniteSets, TLC

VARIABLES
    \* ---- selector matching (auto.py _matching_interfaces) ----
    sel_pc,          \* "off" | "call" | "done"
    sel_selectors,   \* the selector list of one VLAN definition
    sel_interfaces,  \* the interfaces dict: sequence of <<name, interface>>
    sel_matches,     \* the returned dict: sequence of <<name, interface>>
    \* ---- one IP pool generator (auto.py _ip_allocator) ----
    ip_pc,           \* "off" | "running" | "exhausted"
    ip_iface,        \* the IPv4Interface given: [ip, prefixlen], ip the gateway
    ip_gen,          \* the generator object returned by _ip_allocator
    ip_yielded,      \* the values next() has returned so far, in order
    \* ---- one run of build_auto_plan (auto.py) ----
    au_pc,           \* position in build_auto_plan / _collect_auto_attachments
    au_vns,          \* the VirtualNetwork items, in the order loaded
    au_ifaces,       \* the interfaces dict: sequence of <<name, interface>>
    au_vi,           \* index of the VirtualNetwork being processed
    au_defs,         \* the definitions of that VirtualNetwork
    au_di,           \* index of the definition being processed
    au_matches,      \* the matches of that definition
    au_mi,           \* index of the match being processed
    au_col,          \* attachments, sim_nodes, seen_pairs, and the pools
    au_raw,          \* the attachments list as it was handed to the merge
    au_renamed,      \* the result of _rename_servers (None before)
    au_plan,         \* the AutoPlan returned (None before)
    au_error,        \* the SpecError raised ("" when none)
    \* ---- one call of _merge_attachments (auto.py) ----
    mg_pc,           \* "off" | "call" | "done"
    mg_nodes,        \* the sim_nodes dict handed in
    mg_atts,         \* the attachments list handed in
    mg_result,       \* [sim_nodes, attachments] afterwards (None before)
    \* ---- one call of parse_simulation_spec (specs.py) ----
    ps_pc,           \* "off" | "base" | "nodes" | "topology" | "done" | "error"
    ps_raw,          \* the raw mapping handed in
    ps_sim_nodes_raw,\* the list _ensure_list returned for "simNodes"
    ps_topology_raw, \* the list _ensure_list returned for "topology"
    ps_nodes,        \* the nodes dict, as its items in insertion order
    ps_attachments,  \* the attachments list
    ps_error,        \* the SpecError raised (NoError when none)
    \* ---- one run of apply_simulation / remove_simulation (topology.py) ----
    wf_pc,           \* position in the workflow ("off" when not running)
    wf_op,           \* "apply" | "remove"
    wf_debug,        \* the debug flag
    wf_emit_crds,    \* TRUE when the caller gave a manifest path
    wf_bundle,       \* the RenderedBundle
    wf_file,         \* TRUE while the manifest file is on disk
    wf_i,            \* index of the current loop
    wf_caller,       \* who called _wait_for_sim_pod: "collect" | "config"
    wf_sim_node,     \* the sim_node argument of _wait_for_sim_pod
    wf_remaining,    \* seconds until the current deadline (0 once it has passed,
                     \* and outside the polling loops)
    wf_pod_name,     \* the local pod_name ("" outside the polling loops)
    wf_pods,         \* pod_lookup
    wf_lingering,    \* the lingering list of _verify_cleanup
    wf_error,        \* the exception that ended the run (NoFailure when none)
    \* history of the run
    wf_dry,          \* exit of the dry-run command: "none" | "ok" | "failed"
    wf_real,         \* exit of the real command: "none" | "ok" | "failed"
    wf_polled,       \* sim nodes whose pod was looked up
    wf_ready,        \* sim nodes whose pod was observed Ready
    wf_late,         \* sim nodes whose deadline passed before a Ready pod was observed
    wf_expired,      \* sim nodes whose deadline the loop check found passed
    wf_exec,         \* sim nodes an in-pod configuration command was issued for
    wf_echo,         \* commands whose output was echoed
    wf_present,      \* per re-queried summary: did kubectl get succeed
    wf_output,       \* the output each successful etc command returned
    wf_exec_error,   \* error text of the configuration command's last attempt
                     \* ("" when it succeeded, and before the first attempt)
    \* ---- the interfaces of one pod under the in-pod configuration command ----
    pd_pc,           \* "off" | "run" | "done" | "failed"
    pd_config,       \* the NodeInterfaceConfig being configured
    pd_init,         \* the pod's links before the first run
    pd_links,        \* the pod's links: device name -> [up, addrs]
    pd_pass,         \* which run of the command this is: 1 | 2
    pd_step,         \* index in command_str of the step to run next
    pd_cut           \* steps the first run completed before it was cut short
                     \* (-1 while it has not been cut short)

selVars == <<sel_pc, sel_selectors, sel_interfaces, sel_matches>>

ipVars == <<ip_pc, ip_iface, ip_gen, ip_yielded>>

autoVars == <<au_pc, au_vns, au_ifaces, au_vi, au_defs, au_di, au_matches,
              au_mi, au_col, au_raw, au_renamed, au_plan, au_error>>

mergeVars == <<mg_pc, mg_nodes, mg_atts, mg_result>>

parseVars == <<ps_pc, ps_raw, ps_sim_nodes_raw, ps_topology_raw, ps_nodes,
               ps_attachments, ps_error>>

workflowVars == <<wf_pc, wf_op, wf_debug, wf_emit_crds, wf_bundle, wf_file, wf_i,
                  wf_caller, wf_sim_node, wf_remaining, wf_pod_name, wf_pods,
                  wf_lingering, wf_error, wf_dry, wf_real, wf_polled, wf_ready,
                  wf_late, wf_expired, wf_exec, wf_echo, wf_present,
                  wf_output, wf_exec_error>>

podVars == <<pd_pc, pd_config, pd_init, pd_links, pd_pass, pd_step, pd_cut>>

vars == <<selVars, ipVars, autoVars, mergeVars, parseVars, workflowVars,
          podVars>>

notSel == <<ipVars, autoVars, mergeVars, parseVars, workflowVars,
            podVars>>

notIp == <<selVars, autoVars, mergeVars, parseVars, workflowVars,
           podVars>>

notAuto == <<selVars, ipVars, mergeVars, parseVars, workflowVars,
             podVars>>

notMerge == <<selVars, ipVars, autoVars, parseVars, workflowVars,
              podVars>>

notParse == <<selVars, ipVars, autoVars, mergeVars, workflowVars,
              podVars>>

notWorkflow == <<selVars, ipVars, autoVars, mergeVars, parseVars,
                 podVars>>

notPod == <<selVars, ipVars, autoVars, mergeVars, parseVars, workflowVars>>

----------------------------------------------------------------------------
\* Generic helpers: optional values, sequences, strings.

None == <<>>

Some(x) == <<x>>

IsNone(o) == Len(o) = 0

Range(s) == {s[i] : i \in 1..Len(s)}

\* All sequences over S of length at most n.
SeqsUpTo(S, n) == UNION {[1..k -> S] : k \in 0..n}

\* All sequences over S of length at most n without repeated elements.
DistinctSeqsUpTo(S, n) ==
    {s \in SeqsUpTo(S, n) : \A i, j \in 1..Len(s) : i # j => s[i] # s[j]}

\* str.strip(): drop leading and trailing whitespace.
RECURSIVE LStrip(_)
LStrip(s) == IF s # <<>> /\ Head(s) = " " THEN LStrip(Tail(s)) ELSE s

RECURSIVE RStrip(_)
RStrip(s) ==
    IF s # <<>> /\ s[Len(s)] = " " THEN RStrip(SubSeq(s, 1, Len(s) - 1)) ELSE s

Strip(s) == RStrip(LStrip(s))

\* Index of the first occurrence of character c in s from position i, 0 if none.
RECURSIVE IndexFrom(_, _, _)
IndexFrom(s, c, i) ==
    IF i > Len(s) THEN 0
    ELSE IF s[i] = c THEN i
    ELSE IndexFrom(s, c, i + 1)


\* The characters used in names, in code point order; Ord gives a
\* character's rank, which is all that string comparison reads.
CharOrder ==
    <<" ", "-", "0", "1", "2", "3", "4", "5", "6", "7", "8", "9", "=",
      "A", "B", "E", "L", "M", "_",
      "a", "b", "c", "e", "l", "m", "p", "r", "s", "t", "u", "v", "w", "x",
      "y", "z">>

Ord(c) == CHOOSE i \in 1..Len(CharOrder) : CharOrder[i] = c

\* Python's < on str: lexicographic by code point.
RECURSIVE StrLess(_, _)
StrLess(a, b) ==
    IF a = <<>> THEN b # <<>>
    ELSE IF b = <<>> THEN FALSE
    ELSE IF Ord(Head(a)) < Ord(Head(b)) THEN TRUE
    ELSE IF Ord(Head(a)) > Ord(Head(b)) THEN FALSE
    ELSE StrLess(Tail(a), Tail(b))

\* str.lower() on one character.
LowerChar(c) ==
    CASE c = "A" -> "a" [] c = "B" -> "b" [] c = "E" -> "e"
      [] c = "L" -> "l" [] c = "M" -> "m" [] OTHER -> c

Lower(s) == [i \in 1..Len(s) |-> LowerChar(s[i])]

\* str.replace(old, new) for one-character old and new.
ReplaceChar(s, old, new) == [i \in 1..Len(s) |-> IF s[i] = old THEN new ELSE s[i]]

----------------------------------------------------------------------------
\* Selector matching.

\* An Interface resource as the code reads it: metadata.labels (a dict, or a
\* value of another type) and spec.members, a list of [node, interface] whose
\* fields are optional strings.
Interface(labels_is_dict, labels, members) ==
    [labels_is_dict |-> labels_is_dict, labels |-> labels, members |-> members]

_parse_selector(selector) ==
    LET eq == IndexFrom(selector, "=", 1) IN
    IF eq # 0
    THEN [key |-> Strip(SubSeq(selector, 1, eq - 1)),
          expected |-> Some(Strip(SubSeq(selector, eq + 1, Len(selector))))]
    ELSE [key |-> Strip(selector), expected |-> None]

\* A plausible slip: the value of a key=value selector is not compared.
Mutant_matches_selector(interface, selector) ==
    LET p == _parse_selector(selector) IN
    /\ p.key # <<>>
    /\ interface.labels_is_dict
    /\ p.key \in DOMAIN interface.labels

_matches_selector(interface, selector) ==
    LET p == _parse_selector(selector) IN
    IF p.key = <<>> THEN FALSE
    ELSE IF ~interface.labels_is_dict THEN FALSE
    ELSE IF p.key \notin DOMAIN interface.labels THEN FALSE
    ELSE IF IsNone(p.expected) THEN TRUE
    ELSE interface.labels[p.key] = p.expected[1]

\* The inner loop of _matching_interfaces: the first matching selector admits
\* the interface and ends the loop.
RECURSIVE AnySelectorMatches(_, _, _)
AnySelectorMatches(interface, selectors, i) ==
    IF i > Len(selectors) THEN FALSE
    ELSE IF _matches_selector(interface, selectors[i]) THEN TRUE
    ELSE AnySelectorMatches(interface, selectors, i + 1)

RECURSIVE MatchingFrom(_, _, _)
MatchingFrom(selectors, interfaces, i) ==
    IF i > Len(interfaces) THEN <<>>
    ELSE LET name == interfaces[i][1]
             interface == interfaces[i][2]
             rest == MatchingFrom(selectors, interfaces, i + 1)
         IN IF name = <<>> THEN rest
            ELSE IF AnySelectorMatches(interface, selectors, 1)
                 THEN <<interfaces[i]>> \o rest
                 ELSE rest

_matching_interfaces(selectors, interfaces) ==
    MatchingFrom(selectors, interfaces, 1)

----------------------------------------------------------------------------
\* ---- IP pool allocation ----

\* Addresses are 32-bit IPv4 addresses as integers.
AddrBits == 32

Pow2(n) == 2 ^ n

\* IPv4Interface(ip_prefix).network: the address with its host bits cleared.
NetworkOf(ip, prefixlen) == ip - (ip % Pow2(AddrBits - prefixlen))

\* A plausible slip: hosts() without its special cases for /31 and /32.
MutantNumHosts(prefixlen) == Pow2(AddrBits - prefixlen) - 2

\* IPv4Network.hosts(): every address but the network and broadcast address;
\* both addresses of a /31; the single address of a /32.
NumHosts(prefixlen) ==
    IF prefixlen = AddrBits THEN 1
    ELSE IF prefixlen = AddrBits - 1 THEN 2
    ELSE Pow2(AddrBits - prefixlen) - 2

HostAt(network, prefixlen, k) ==
    IF prefixlen >= AddrBits - 1 THEN network + k ELSE network + 1 + k

\* The generator created by _ip_allocator for gateway ip/prefixlen: pos counts
\* the hosts of network.hosts() already visited.
_ip_allocator(ip, prefixlen) ==
    [network |-> NetworkOf(ip, prefixlen), gateway |-> ip,
     prefixlen |-> prefixlen, pos |-> 0]

\* A plausible slip: the gateway is yielded like any other host.
MutantGenNext(gen) ==
    IF gen.pos >= NumHosts(gen.prefixlen)
    THEN [value |-> None, gen |-> gen]
    ELSE [value |-> Some([addr |-> HostAt(gen.network, gen.prefixlen, gen.pos),
                          prefixlen |-> gen.prefixlen]),
          gen |-> [gen EXCEPT !.pos = gen.pos + 1]]

\* next(generator): [value |-> Some("host/prefixlen") or None on
\* StopIteration, gen |-> the generator afterwards].
RECURSIVE GenNext(_)
GenNext(gen) ==
    IF gen.pos >= NumHosts(gen.prefixlen)
    THEN [value |-> None, gen |-> gen]
    ELSE LET host == HostAt(gen.network, gen.prefixlen, gen.pos)
             after == [gen EXCEPT !.pos = gen.pos + 1]
         IN IF host = gen.gateway
            THEN GenNext(after)
            ELSE [value |-> Some([addr |-> host, prefixlen |-> gen.prefixlen]),
                  gen |-> after]

----------------------------------------------------------------------------
\* Auto-generation: VLAN definitions, collection, merge, rename, plan.

DEFAULT_IMAGE ==
    <<"g", "h", "c", "r", ".", "i", "o", "/", "s", "r", "l", "-", "l",
      "a", "b", "s", "/", "n", "e", "t", "w", "o", "r", "k", "-", "m",
      "u", "l", "t", "i", "t", "o", "o", "l", ":", "v", "0", ".", "4",
      ".", "1">>

DEFAULT_NODE_TYPE == <<"L", "i", "n", "u", "x">>

DEFAULT_SIM_INTERFACE == <<"e", "t", "h", "1">>

MAX_NAME_LENGTH == 63

\* The IPv4 entry _build_ip_allocators settles on for one IRB interface: the
\* first entry flagged primary, else the last entry of the list.
RECURSIVE PickPrimary(_, _, _)
PickPrimary(ip_addresses, i, primary) ==
    IF i > Len(ip_addresses) THEN primary
    ELSE IF ip_addresses[i].primary THEN Some(ip_addresses[i])
    ELSE PickPrimary(ip_addresses, i + 1, Some(ip_addresses[i]))

\* dict assignment d[k] = v on a dict held as a function.
DictSet(d, k, v) == [x \in DOMAIN d \cup {k} |-> IF x = k THEN v ELSE d[x]]

EmptyDict == [x \in {} |-> <<>>]

RECURSIVE BuildAllocatorsFrom(_, _, _)
BuildAllocatorsFrom(irbs, i, allocators) ==
    IF i > Len(irbs) THEN allocators
    ELSE LET entry == irbs[i]
             primary == PickPrimary(entry.ipAddresses, 1, None)
         IN IF IsNone(entry.bridgeDomain) \/ IsNone(primary)
            THEN BuildAllocatorsFrom(irbs, i + 1, allocators)
            ELSE BuildAllocatorsFrom(irbs, i + 1,
                    DictSet(allocators, entry.bridgeDomain[1],
                            _ip_allocator(primary[1].ip, primary[1].prefixlen)))

\* bridge domain -> generator, one generator object per bridge domain.
_build_ip_allocators(vn) == BuildAllocatorsFrom(vn.irbInterfaces, 1, EmptyDict)

\* The definitions of one VirtualNetwork.  ip_pool refers to the generator
\* object of the definition's bridge domain (None when there is none).
RECURSIVE GatherFrom(_, _, _)
GatherFrom(vn, allocators, i) ==
    IF i > Len(vn.vlans) THEN <<>>
    ELSE LET e == vn.vlans[i]
             rest == GatherFrom(vn, allocators, i + 1)
             vlan_name == IF IsNone(e.name) \/ e.name = Some(<<>>)
                          THEN vn.name ELSE e.name[1]
             ip_pool == IF ~IsNone(e.bridgeDomain)
                           /\ e.bridgeDomain[1] \in DOMAIN allocators
                        THEN e.bridgeDomain ELSE None
         IN IF e.selectors = <<>> THEN rest
            ELSE << [virtual_network |-> vn.name,
                     vlan_name |-> vlan_name,
                     vlan_id |-> IF e.vlanID = Some(<<>>) THEN None ELSE e.vlanID,
                     selectors |-> e.selectors,
                     ip_pool |-> ip_pool] >> \o rest

_gather_vlan_definitions(vn) ==
    [definitions |-> GatherFrom(vn, _build_ip_allocators(vn), 1),
     allocators |-> _build_ip_allocators(vn)]

_extract_fabric_endpoint(interface) ==
    IF interface.members = <<>> THEN <<None, None>>
    ELSE LET primary == interface.members[1] IN
         IF ~IsNone(primary.node) /\ ~IsNone(primary.interface)
         THEN <<primary.node, primary.interface>>
         ELSE <<None, None>>

_generate_sim_name(interface_name) ==
    LET base == ReplaceChar(Lower(interface_name), "_", "-") IN
    IF Len(base) <= MAX_NAME_LENGTH THEN base ELSE SubSeq(base, 1, MAX_NAME_LENGTH)

\* The node record sim_nodes.setdefault creates.
NewNodeEntry(name) ==
    [name |-> name, image |-> DEFAULT_IMAGE, type |-> DEFAULT_NODE_TYPE,
     interface |-> DEFAULT_SIM_INTERFACE, vlan |-> None, ipAddress |-> None]

\* A plausible slip: the "key not in node_entry" test is left out, so every
\* attachment that has a value writes it.
MutantSeedNode(node_entry, vlan_id, ip_address) ==
    [node_entry EXCEPT
        !.vlan = IF ~IsNone(vlan_id) THEN vlan_id ELSE @,
        !.ipAddress = IF ~IsNone(ip_address) THEN ip_address ELSE @]

\* "if value and key not in node_entry: node_entry[key] = value" for the
\* vlan and ipAddress fields (auto.py 299-302 and 255-258).
SeedNode(node_entry, vlan_id, ip_address) ==
    [node_entry EXCEPT
        !.vlan = IF ~IsNone(vlan_id) /\ IsNone(@) THEN vlan_id ELSE @,
        !.ipAddress = IF ~IsNone(ip_address) /\ IsNone(@) THEN ip_address ELSE @]

AutoAttachment(definition, interface_name, endpoint, sim_name, ip_address) ==
    [virtual_network |-> definition.virtual_network,
     vlan_name |-> definition.vlan_name,
     vlan_id |-> definition.vlan_id,
     interface_name |-> interface_name,
     fabric_node |-> endpoint[1][1],
     fabric_interface |-> endpoint[2][1],
     sim_name |-> sim_name,
     ip_address |-> ip_address]

\* The sort key of _merge_attachments: (0 if ip else 1, vlan_id or "", vn).
MergeKey(att) ==
    [noip |-> IF ~IsNone(att.ip_address) THEN 0 ELSE 1,
     vlan |-> IF IsNone(att.vlan_id) THEN <<>> ELSE att.vlan_id[1],
     vn |-> att.virtual_network]

\* A plausible slip: the key does not look at the allocated IP.
MutantMergeKeyLess(a, b) ==
    \/ StrLess(a.vlan, b.vlan)
    \/ a.vlan = b.vlan /\ StrLess(a.vn, b.vn)

\* Python's < on the key tuples.
MergeKeyLess(a, b) ==
    \/ a.noip < b.noip
    \/ a.noip = b.noip /\ StrLess(a.vlan, b.vlan)
    \/ a.noip = b.noip /\ a.vlan = b.vlan /\ StrLess(a.vn, b.vn)

\* sorted(entries, key)[0]: sorted is stable, so the first of the entries
\* with the least key.
RECURSIVE PrimaryFrom(_, _, _)
PrimaryFrom(entries, i, best) ==
    IF i > Len(entries) THEN entries[best]
    ELSE IF MergeKeyLess(MergeKey(entries[i]), MergeKey(entries[best]))
         THEN PrimaryFrom(entries, i + 1, i)
         ELSE PrimaryFrom(entries, i + 1, best)

PrimaryOf(entries) == PrimaryFrom(entries, 2, 1)

\* The keys of grouped, in insertion order: interface names by first
\* appearance in attachments.
RECURSIVE GroupKeys(_, _, _)
GroupKeys(attachments, i, keys) ==
    IF i > Len(attachments) THEN keys
    ELSE IF attachments[i].interface_name \in Range(keys)
         THEN GroupKeys(attachments, i + 1, keys)
         ELSE GroupKeys(attachments, i + 1, Append(keys, attachments[i].interface_name))

GroupOf(attachments, interface_name) ==
    LET Same(att) == att.interface_name = interface_name IN
    SelectSeq(attachments, Same)

RECURSIVE MergeFrom(_, _, _, _, _)
MergeFrom(sim_nodes, attachments, keys, i, merged) ==
    IF i > Len(keys) THEN [sim_nodes |-> sim_nodes, attachments |-> merged]
    ELSE LET primary == PrimaryOf(GroupOf(attachments, keys[i]))
             nodes == IF primary.sim_name \in DOMAIN sim_nodes
                      THEN [sim_nodes EXCEPT ![primary.sim_name] =
                               SeedNode(@, primary.vlan_id, primary.ip_address)]
                      ELSE sim_nodes
         IN MergeFrom(nodes, attachments, keys, i + 1, Append(merged, primary))

\* A plausible slip: every per-VLAN attachment is kept.
Mutant_merge_attachments(sim_nodes, attachments) ==
    [sim_nodes |-> sim_nodes, attachments |-> attachments]

_merge_attachments(sim_nodes, attachments) ==
    MergeFrom(sim_nodes, attachments, GroupKeys(attachments, 1, <<>>), 1, <<>>)

\* The sort key of _rename_servers, compared as Python compares tuples of str.
RenameKey(a) ==
    <<a.fabric_node, a.fabric_interface, a.virtual_network, a.vlan_name,
      a.interface_name>>

RECURSIVE TupleLess(_, _, _)
TupleLess(a, b, i) ==
    IF i > Len(a) THEN FALSE
    ELSE IF StrLess(a[i], b[i]) THEN TRUE
    ELSE IF a[i] # b[i] THEN FALSE
    ELSE TupleLess(a, b, i + 1)

\* Insert x behind every element whose key is not greater: a stable sort.
RECURSIVE InsertByRenameKey(_, _)
InsertByRenameKey(sorted, x) ==
    IF sorted = <<>> THEN <<x>>
    ELSE IF TupleLess(RenameKey(x), RenameKey(Head(sorted)), 1)
         THEN <<x>> \o sorted
         ELSE <<Head(sorted)>> \o InsertByRenameKey(Tail(sorted), x)

RECURSIVE SortedByRenameKey(_, _, _)
SortedByRenameKey(attachments, i, sorted) ==
    IF i > Len(attachments) THEN sorted
    ELSE SortedByRenameKey(attachments, i + 1,
                           InsertByRenameKey(sorted, attachments[i]))

\* str(n) for n >= 0.
RECURSIVE Decimal(_)
Decimal(n) ==
    LET digit == <<"0", "1", "2", "3", "4", "5", "6", "7", "8", "9">>[(n % 10) + 1] IN
    IF n < 10 THEN <<digit>> ELSE Append(Decimal(n \div 10), digit)

ServerName(index) == <<"s", "e", "r", "v", "e", "r">> \o Decimal(index)

RECURSIVE RenameFrom(_, _, _, _, _, _)
RenameFrom(sim_nodes, ordered, i, name_map, renamed_nodes, renamed_attachments) ==
    IF i > Len(ordered)
    THEN [sim_nodes |-> renamed_nodes, attachments |-> renamed_attachments,
          name_map |-> name_map]
    ELSE LET attachment == ordered[i]
             old_name == attachment.sim_name
             known == old_name \in DOMAIN name_map
             new_name == IF known THEN name_map[old_name]
                         ELSE ServerName(Cardinality(DOMAIN name_map) + 1)
             node_entry == IF old_name \in DOMAIN sim_nodes
                           THEN sim_nodes[old_name] ELSE NewNodeEntry(new_name)
         IN RenameFrom(sim_nodes, ordered, i + 1,
                IF known THEN name_map ELSE DictSet(name_map, old_name, new_name),
                IF known THEN renamed_nodes
                ELSE DictSet(renamed_nodes, new_name,
                             [node_entry EXCEPT !.name = new_name]),
                Append(renamed_attachments,
                       [attachment EXCEPT !.sim_name = new_name]))

\* A plausible slip: the attachments are numbered in the order handed in,
\* without the sort.
Mutant_rename_servers(sim_nodes, attachments) ==
    RenameFrom(sim_nodes, attachments, 1, EmptyDict, EmptyDict, <<>>)

_rename_servers(sim_nodes, attachments) ==
    RenameFrom(sim_nodes, SortedByRenameKey(attachments, 1, <<>>), 1,
               EmptyDict, EmptyDict, <<>>)

\* The simNodes list and the topology list of build_auto_plan's raw_spec.
RECURSIVE SimNodesListFrom(_, _)
SimNodesListFrom(renamed_nodes, index) ==
    IF index > Cardinality(DOMAIN renamed_nodes) THEN <<>>
    ELSE IF ServerName(index) \in DOMAIN renamed_nodes
         THEN <<renamed_nodes[ServerName(index)]>>
              \o SimNodesListFrom(renamed_nodes, index + 1)
         ELSE SimNodesListFrom(renamed_nodes, index + 1)

TopologyEntry(attachment) ==
    [node |-> attachment.fabric_node,
     interface |-> attachment.fabric_interface,
     simNode |-> attachment.sim_name,
     simNodeInterface |-> DEFAULT_SIM_INTERFACE,
     vlan |-> attachment.vlan_id]

AutoPlan(renamed_nodes, renamed_attachments) ==
    [raw_spec |->
        [simNodes |-> SimNodesListFrom(renamed_nodes, 1),
         topology |-> [i \in 1..Len(renamed_attachments) |->
                          TopologyEntry(renamed_attachments[i])]],
     attachments |-> renamed_attachments]

\* ---- the collection loop of _collect_auto_attachments ----

\* The locals of _collect_auto_attachments, and the generator objects of the
\* VirtualNetwork being processed.
EmptyCollection ==
    [attachments |-> <<>>, sim_nodes |-> EmptyDict, seen_pairs |-> {},
     pools |-> EmptyDict]

\* A plausible slip: seen_pairs is never consulted.
MutantPairSeen(col, definition, interface_name) == FALSE

PairSeen(col, definition, interface_name) ==
    <<definition.vlan_name, interface_name>> \in col.seen_pairs

EndpointMissing(interface) ==
    LET endpoint == _extract_fabric_endpoint(interface) IN
    \/ IsNone(endpoint[1]) \/ endpoint[1] = Some(<<>>)
    \/ IsNone(endpoint[2]) \/ endpoint[2] = Some(<<>>)

\* A plausible slip: one cursor for all pools, so that drawing from one pool
\* advances every generator.
MutantAllocate(col, definition) ==
    IF IsNone(definition.ip_pool)
    THEN [value |-> None, pools |-> col.pools]
    ELSE [value |-> GenNext(col.pools[definition.ip_pool[1]]).value,
          pools |-> [bd \in DOMAIN col.pools |-> GenNext(col.pools[bd]).gen]]

\* next(definition.ip_pool), None when there is no pool or it is exhausted.
Allocate(col, definition) ==
    IF IsNone(definition.ip_pool)
    THEN [value |-> None, pools |-> col.pools]
    ELSE LET r == GenNext(col.pools[definition.ip_pool[1]]) IN
         [value |-> r.value,
          pools |-> [col.pools EXCEPT ![definition.ip_pool[1]] = r.gen]]

\* A plausible slip: the address is drawn before the endpoint is tested.
MutantCollectOne(col, definition, interface_name, interface) ==
    IF PairSeen(col, definition, interface_name) THEN col
    ELSE LET seen == col.seen_pairs \cup {<<definition.vlan_name, interface_name>>}
             alloc == Allocate(col, definition)
         IN
         IF EndpointMissing(interface)
         THEN [col EXCEPT !.seen_pairs = seen, !.pools = alloc.pools]
         ELSE LET sim_name == _generate_sim_name(interface_name)
                  node_entry == IF sim_name \in DOMAIN col.sim_nodes
                                THEN col.sim_nodes[sim_name]
                                ELSE NewNodeEntry(sim_name)
              IN [attachments |->
                     Append(col.attachments,
                            AutoAttachment(definition, interface_name,
                                           _extract_fabric_endpoint(interface),
                                           sim_name, alloc.value)),
                  sim_nodes |->
                     DictSet(col.sim_nodes, sim_name,
                             SeedNode(node_entry, definition.vlan_id, alloc.value)),
                  seen_pairs |-> seen,
                  pools |-> alloc.pools]

\* One iteration of the loop over matches.items() (auto.py 274-315).
CollectOne(col, definition, interface_name, interface) ==
    IF PairSeen(col, definition, interface_name) THEN col
    ELSE LET seen == col.seen_pairs \cup {<<definition.vlan_name, interface_name>>} IN
         IF EndpointMissing(interface) THEN [col EXCEPT !.seen_pairs = seen]
         ELSE LET sim_name == _generate_sim_name(interface_name)
                  alloc == Allocate(col, definition)
                  node_entry == IF sim_name \in DOMAIN col.sim_nodes
                                THEN col.sim_nodes[sim_name]
                                ELSE NewNodeEntry(sim_name)
              IN [attachments |->
                     Append(col.attachments,
                            AutoAttachment(definition, interface_name,
                                           _extract_fabric_endpoint(interface),
                                           sim_name, alloc.value)),
                  sim_nodes |->
                     DictSet(col.sim_nodes, sim_name,
                             SeedNode(node_entry, definition.vlan_id, alloc.value)),
                  seen_pairs |-> seen,
                  pools |-> alloc.pools]

RECURSIVE CollectMatches(_, _, _, _)
CollectMatches(col, definition, matches, i) ==
    IF i > Len(matches) THEN col
    ELSE CollectMatches(CollectOne(col, definition, matches[i][1], matches[i][2]),
                        definition, matches, i + 1)

RECURSIVE CollectDefinitions(_, _, _, _)
CollectDefinitions(col, definitions, interfaces, i) ==
    IF i > Len(definitions) THEN col
    ELSE CollectDefinitions(
            CollectMatches(col, definitions[i],
                           _matching_interfaces(definitions[i].selectors, interfaces), 1),
            definitions, interfaces, i + 1)

RECURSIVE CollectNetworks(_, _, _, _)
CollectNetworks(col, virtual_networks, interfaces, i) ==
    IF i > Len(virtual_networks) THEN col
    ELSE LET g == _gather_vlan_definitions(virtual_networks[i]) IN
         CollectNetworks(
            CollectDefinitions([col EXCEPT !.pools = g.allocators],
                               g.definitions, interfaces, 1),
            virtual_networks, interfaces, i + 1)

_collect_auto_attachments(virtual_networks, interfaces) ==
    LET col == CollectNetworks(EmptyCollection, virtual_networks, interfaces, 1) IN
    _merge_attachments(col.sim_nodes, col.attachments)

\* build_auto_plan on the loaded resources: the plan, or the SpecError raised.
build_auto_plan(virtual_networks, interfaces) ==
    IF virtual_networks = <<>> THEN [error |-> "NoVirtualNetworks", plan |-> None]
    ELSE IF interfaces = <<>> THEN [error |-> "NoInterfaces", plan |-> None]
    ELSE LET c == _collect_auto_attachments(virtual_networks, interfaces) IN
         IF c.attachments = <<>> THEN [error |-> "NoMatches", plan |-> None]
         ELSE LET r == _rename_servers(c.sim_nodes, c.attachments) IN
              [error |-> "", plan |-> Some(AutoPlan(r.sim_nodes, r.attachments))]

----------------------------------------------------------------------------
\* ---- src/cx_attach/specs.py ----

\* YAML values: a string, an integer (its decimal digits), null or absent.
Null == [kind |-> "null", s |-> <<>>]

Str(s) == [kind |-> "str", s |-> s]

IntValue(digits) == [kind |-> "int", s |-> digits]

\* A list entry: a mapping (its keys and values) or something else.
Mapping(d) == [is_mapping |-> TRUE, d |-> d]

NotMapping == [is_mapping |-> FALSE, d |-> EmptyDict]

\* entry.get(key) and entry.get(key, default)
Get(entry, key) == IF key \in DOMAIN entry.d THEN entry.d[key] ELSE Null

GetDefault(entry, key, default) ==
    IF key \in DOMAIN entry.d THEN entry.d[key] ELSE default

\* bool(value), and Python's "a or b"
Truthy(v) ==
    \/ v.kind = "str" /\ v.s # <<>>
    \/ v.kind = "int" /\ v.s # <<"0">>

Or(a, b) == IF Truthy(a) THEN a ELSE b

\* isinstance(value, str) and value.strip()
NonBlankStr(v) == v.kind = "str" /\ Strip(v.s) # <<>>

SpecError(message, arg, known) == [message |-> message, arg |-> arg, known |-> known]

NoError == SpecError("", <<>>, <<>>)

\* _ensure_list: None gives [], a list is returned, anything else raises.
_ensure_list(value, key) ==
    IF value.kind = "null" THEN [error |-> NoError, list |-> <<>>]
    ELSE IF value.kind = "list" THEN [error |-> NoError, list |-> value.items]
    ELSE [error |-> SpecError("Expected list for '" \o key \o "'", <<>>, <<>>),
          list |-> <<>>]

SimNodeSpec(name, image, node_type, raw) ==
    [name |-> name, image |-> image, node_type |-> node_type, raw |-> raw]

AttachmentSpec(fabric_node, fabric_interface, sim_node, sim_interface, vlan) ==
    [fabric_node |-> fabric_node, fabric_interface |-> fabric_interface,
     sim_node |-> sim_node, sim_interface |-> sim_interface, vlan |-> vlan]

\* The keys of the nodes dict (items in insertion order).
Keys(items) == {items[i][1] : i \in 1..Len(items)}

\* One iteration of the loop of _parse_sim_nodes: the error raised, or the
\* item stored in nodes.
ParseSimNode(entry, nodes) ==
    LET name == Get(entry, "name")
        image == Get(entry, "image")
        node_type == GetDefault(entry, "type", Str(<<"l", "i", "n", "u", "x">>))
        fail(message, arg) == [error |-> SpecError(message, arg, <<>>), item |-> None]
    IN IF ~entry.is_mapping
       THEN fail("Entries under 'simNodes' must be mappings", <<>>)
       ELSE IF ~NonBlankStr(name)
       THEN fail("Each simNode requires a string 'name'", <<>>)
       ELSE IF name.s \in Keys(nodes)
       THEN fail("Duplicate simNode name detected", name.s)
       ELSE IF ~NonBlankStr(image)
       THEN fail("simNode requires a string 'image'", name.s)
       ELSE IF ~NonBlankStr(node_type)
       THEN fail("simNode requires a valid 'type'", name.s)
       ELSE [error |-> NoError,
             item |-> Some(<<name.s, SimNodeSpec(Strip(name.s), Strip(image.s),
                                                 Strip(node_type.s), entry.d)>>)]

RECURSIVE ParseSimNodesFrom(_, _, _)
ParseSimNodesFrom(raw_nodes, i, nodes) ==
    IF i > Len(raw_nodes)
    THEN IF nodes = <<>>
         THEN [error |-> SpecError("At least one simNode must be provided", <<>>, <<>>),
               nodes |-> <<>>]
         ELSE [error |-> NoError, nodes |-> nodes]
    ELSE LET r == ParseSimNode(raw_nodes[i], nodes) IN
         IF r.error # NoError THEN [error |-> r.error, nodes |-> <<>>]
         ELSE ParseSimNodesFrom(raw_nodes, i + 1, nodes \o r.item)

_parse_sim_nodes(raw_nodes) == ParseSimNodesFrom(raw_nodes, 1, <<>>)

\* sorted(known_nodes)
RECURSIVE SortedStrings(_)
SortedStrings(S) ==
    IF S = {} THEN <<>>
    ELSE LET least == CHOOSE x \in S : \A y \in S \ {x} : StrLess(x, y)
         IN <<least>> \o SortedStrings(S \ {least})

\* A plausible slip: an entry whose simNode is unknown is skipped.
MutantParseAttachment(entry, known_nodes) ==
    LET fabric_node == Get(entry, "node")
        fabric_iface == Get(entry, "interface")
        sim_node == Get(entry, "simNode")
        sim_iface == Or(Get(entry, "simNodeInterface"), Get(entry, "interface"))
        vlan_value == Or(Get(entry, "vlan"), Get(entry, "vlanId"))
        vlan == IF vlan_value.kind \in {"str", "int"} THEN Some(vlan_value.s) ELSE None
    IN IF ~entry.is_mapping
       THEN [error |-> SpecError("Entries under 'topology' must be mappings", <<>>, <<>>),
             attachments |-> <<>>]
       ELSE IF ~(/\ NonBlankStr(fabric_node) /\ NonBlankStr(fabric_iface)
                 /\ NonBlankStr(sim_node) /\ NonBlankStr(sim_iface))
       THEN [error |-> SpecError("Topology entries require node/interface pairs on both fabric and sim sides",
                                 <<>>, <<>>),
             attachments |-> <<>>]
       ELSE IF sim_node.s \notin Keys(known_nodes)
       THEN [error |-> NoError, attachments |-> <<>>]
       ELSE [error |-> NoError,
             attachments |-> << AttachmentSpec(Strip(fabric_node.s), Strip(fabric_iface.s),
                                               Strip(sim_node.s), Strip(sim_iface.s), vlan) >>]

\* One iteration of the loop of _parse_attachments: the error raised, or the
\* AttachmentSpec appended.
ParseAttachment(entry, known_nodes) ==
    LET fabric_node == Get(entry, "node")
        fabric_iface == Get(entry, "interface")
        sim_node == Get(entry, "simNode")
        sim_iface == Or(Get(entry, "simNodeInterface"), Get(entry, "interface"))
        vlan_value == Or(Get(entry, "vlan"), Get(entry, "vlanId"))
        vlan == IF vlan_value.kind \in {"str", "int"} THEN Some(vlan_value.s) ELSE None
    IN IF ~entry.is_mapping
       THEN [error |-> SpecError("Entries under 'topology' must be mappings", <<>>, <<>>),
             attachments |-> <<>>]
       ELSE IF ~(/\ NonBlankStr(fabric_node) /\ NonBlankStr(fabric_iface)
                 /\ NonBlankStr(sim_node) /\ NonBlankStr(sim_iface))
       THEN [error |-> SpecError("Topology entries require node/interface pairs on both fabric and sim sides",
                                 <<>>, <<>>),
             attachments |-> <<>>]
       ELSE IF sim_node.s \notin Keys(known_nodes)
       THEN [error |-> SpecError("Topology entry references unknown simNode",
                                 sim_node.s, SortedStrings(Keys(known_nodes))),
             attachments |-> <<>>]
       ELSE [error |-> NoError,
             attachments |-> << AttachmentSpec(Strip(fabric_node.s), Strip(fabric_iface.s),
                                               Strip(sim_node.s), Strip(sim_iface.s), vlan) >>]

RECURSIVE ParseAttachmentsFrom(_, _, _, _)
ParseAttachmentsFrom(raw_attachments, known_nodes, i, attachments) ==
    IF i > Len(raw_attachments)
    THEN IF attachments = <<>>
         THEN [error |-> SpecError("At least one topology attachment must be provided", <<>>, <<>>),
               attachments |-> <<>>]
         ELSE [error |-> NoError, attachments |-> attachments]
    ELSE LET r == ParseAttachment(raw_attachments[i], known_nodes) IN
         IF r.error # NoError THEN [error |-> r.error, attachments |-> <<>>]
         ELSE ParseAttachmentsFrom(raw_attachments, known_nodes, i + 1,
                                   attachments \o r.attachments)

_parse_attachments(raw_attachments, known_nodes) ==
    IF known_nodes = <<>> THEN [error |-> NoError, attachments |-> <<>>]
    ELSE ParseAttachmentsFrom(raw_attachments, known_nodes, 1, <<>>)

\* The "items"/"spec" unwrapping of parse_simulation_spec and the two
\* _ensure_list calls.  raw.wrapper tells where the spec mapping sits.
SelectBase(raw) ==
    IF raw.wrapper = "items-empty"
    THEN [error |-> SpecError("'items' must contain at least one entry", <<>>, <<>>),
          simNodes |-> <<>>, topology |-> <<>>]
    ELSE IF raw.wrapper = "items-no-spec"
    THEN [error |-> SpecError("items[0].spec must be a mapping", <<>>, <<>>),
          simNodes |-> <<>>, topology |-> <<>>]
    ELSE LET sim_nodes_raw == _ensure_list(raw.simNodes, "simNodes")
             topology_raw == _ensure_list(raw.topology, "topology")
         IN IF sim_nodes_raw.error # NoError
            THEN [error |-> sim_nodes_raw.error, simNodes |-> <<>>, topology |-> <<>>]
            ELSE IF topology_raw.error # NoError
            THEN [error |-> topology_raw.error, simNodes |-> <<>>, topology |-> <<>>]
            ELSE [error |-> NoError, simNodes |-> sim_nodes_raw.list,
                  topology |-> topology_raw.list]

parse_simulation_spec(raw) ==
    LET base == SelectBase(raw) IN
    IF base.error # NoError THEN [error |-> base.error, spec |-> None]
    ELSE LET nodes == _parse_sim_nodes(base.simNodes) IN
         IF nodes.error # NoError THEN [error |-> nodes.error, spec |-> None]
         ELSE LET attachments == _parse_attachments(base.topology, nodes.nodes) IN
              IF attachments.error # NoError
              THEN [error |-> attachments.error, spec |-> None]
              ELSE [error |-> NoError,
                    spec |-> Some([nodes |-> nodes.nodes,
                                   attachments |-> attachments.attachments])]

----------------------------------------------------------------------------
\* ---- src/cx_attach/kubectl.py and the workflow of src/cx_attach/topology.py ----

POD_WAIT_SECONDS == 180

WAIT_TIMEOUT_SECONDS == 120

SLEEP_SECONDS == 2

CONFIG_RETRY_SECONDS == 180

NoFailure == [type |-> "", arg |-> ""]

CommandError(command) == [type |-> "CommandError", arg |-> command]

\* RuntimeError("Timed out waiting for pod backing sim node {sim_node}")
TimedOut(sim_node) == [type |-> "RuntimeError", arg |-> sim_node]

\* What a finished process hands back.
Result(returncode, stdout, stderr) ==
    [returncode |-> returncode, stdout |-> stdout, stderr |-> stderr]

\* A plausible slip: the exit status is not looked at.
Mutant_run_command(result) == [raised |-> FALSE, output |-> result.stdout]

\* run_command: CommandError on a non-zero exit, the output otherwise.
run_command(result) ==
    IF result.returncode # 0 THEN [raised |-> TRUE, output |-> ""]
    ELSE [raised |-> FALSE, output |-> result.stdout]

\* A plausible slip: the output is echoed only when debug is set.
Mutant_run_etc(result, debug) ==
    LET r == run_command(result) IN
    [raised |-> r.raised, output |-> r.output, echoed |-> ~r.raised /\ debug]

\* _run_etc: the output is echoed when debug is set or when it is not empty.
_run_etc(result, debug) ==
    LET r == run_command(result) IN
    [raised |-> r.raised, output |-> r.output,
     echoed |-> ~r.raised /\ (debug \/ r.output # "")]

EtcCommand(op, dry_run) ==
    IF op = "apply"
    THEN IF dry_run THEN "etc apply --dry-run" ELSE "etc apply"
    ELSE IF dry_run THEN "etc delete --dry-run" ELSE "etc delete"

\* time.time() < deadline
BeforeDeadline(remaining) == remaining > 0

\* A plausible slip: the clock stands still.
MutantElapse(remaining, seconds) == remaining

\* The time left once seconds more have passed.
Elapse(remaining, seconds) ==
    IF remaining > seconds THEN remaining - seconds ELSE 0

\* A plausible slip: the pod is returned although the wait failed.
MutantPodAfterWait(pod_name, raised) == pod_name

\* pod_name after the kubectl wait of _wait_for_sim_pod: reset on CommandError.
PodAfterWait(pod_name, raised) == IF raised THEN "" ELSE pod_name

\* A plausible slip: every failure of the configuration command is retried.
MutantDeviceNotVisible(error_text) == TRUE

\* The retry test of _configure_linux_interfaces.
DeviceNotVisible(error_text) ==
    error_text \in {"Device \"", "Cannot find device", "does not exist"}

ResourceSummary(kind, name) == [kind |-> kind, name |-> name]

\* A plausible slip: the resource is listed whatever kubectl get returned.
MutantAfterQuery(lingering, summary, raised) == Append(lingering, summary)

\* _verify_cleanup, one summary: "except CommandError: continue", otherwise
\* the resource is appended to lingering.
AfterQuery(lingering, summary, raised) ==
    IF raised THEN lingering ELSE Append(lingering, summary)

NodeInterfaceConfig(name, interface, ip_address, vlan) ==
    [name |-> name, interface |-> interface, ip_address |-> ip_address,
     vlan |-> vlan]

\* The bundle of a spec whose nodes are names, each with one attachment;
\* the nodes in configured have an interface and an address.
RenderedBundle(names, configured) ==
    [sim_nodes |-> names,
     node_configs |->
        SelectSeq([i \in 1..Len(names) |->
                      NodeInterfaceConfig(names[i], DEFAULT_SIM_INTERFACE,
                                          <<"1", "/", "2", "4">>, None)],
                  LAMBDA c : c.name \in configured),
     summaries |-> [i \in 1..Len(names) |-> ResourceSummary("SimNode", names[i])]
                   \o [i \in 1..Len(names) |-> ResourceSummary("SimLink", names[i])]
                   \o [i \in 1..Len(names) |-> ResourceSummary("TopoLink", names[i])]]

----------------------------------------------------------------------------
\* ---- rendering: src/cx_attach/topology.py ----

\* str.isalnum() on one character.
IsAlnum(c) == c \notin {" ", "-", "=", "_", ".", "/", ":"}

\* while "--" in slug: slug = slug.replace("--", "-")
RECURSIVE CollapseDashes(_)
CollapseDashes(s) ==
    IF Len(s) < 2 THEN s
    ELSE IF s[1] = "-" /\ s[2] = "-" THEN CollapseDashes(Tail(s))
    ELSE <<s[1]>> \o CollapseDashes(Tail(s))

\* str.strip("-")
RECURSIVE StripDashes(_)
StripDashes(s) ==
    IF s = <<>> THEN s
    ELSE IF Head(s) = "-" THEN StripDashes(Tail(s))
    ELSE IF s[Len(s)] = "-" THEN StripDashes(SubSeq(s, 1, Len(s) - 1))
    ELSE s

_slugify(value) ==
    LET slug == CollapseDashes([i \in 1..Len(value) |->
                                   IF IsAlnum(value[i]) THEN LowerChar(value[i])
                                   ELSE "-"])
    IN IF StripDashes(slug) = <<>> THEN <<"s", "i", "m">> ELSE StripDashes(slug)

\* The properties of SimNodeSpec that read node.raw.
NodeIpAddress(node) ==
    LET value == Or(Get(Mapping(node.raw), "ipAddress"), Get(Mapping(node.raw), "ip"))
    IN IF value.kind \in {"str", "int"} THEN Some(value.s) ELSE None

NodeVlan(node) ==
    LET value == Or(Get(Mapping(node.raw), "vlan"), Get(Mapping(node.raw), "vlanId"))
    IN IF value.kind \in {"str", "int"} THEN Some(value.s) ELSE None

NodeInterface(node) ==
    LET value == Or(Get(Mapping(node.raw), "interface"),
                    Get(Mapping(node.raw), "simInterface"))
    IN IF NonBlankStr(value) THEN Some(value.s) ELSE None

\* bool() of an optional string.
Given(o) == ~IsNone(o) /\ o[1] # <<>>

_attachments_by_node(attachments, name) ==
    SelectSeq(attachments, LAMBDA a : a.sim_node = name)

RECURSIVE FirstGiven(_, _, _)
FirstGiven(attachments, field, i) ==
    IF i > Len(attachments) THEN None
    ELSE LET value == IF field = "vlan" THEN attachments[i].vlan
                      ELSE Some(attachments[i].sim_interface)
         IN IF Given(value) THEN value ELSE FirstGiven(attachments, field, i + 1)

\* A plausible slip: only the first attachment is looked at.
Mutant_select_vlan(node, attachments) ==
    IF Given(NodeVlan(node)) THEN NodeVlan(node)
    ELSE IF attachments = <<>> THEN None
    ELSE IF Given(attachments[1].vlan) THEN attachments[1].vlan ELSE None

_select_vlan(node, attachments) ==
    IF Given(NodeVlan(node)) THEN NodeVlan(node)
    ELSE FirstGiven(attachments, "vlan", 1)

_select_interface(node, attachments) ==
    IF Given(NodeInterface(node)) THEN NodeInterface(node)
    ELSE FirstGiven(attachments, "sim_interface", 1)

\* _render_simnode: the name of the manifest and the NodeInterfaceConfig, if any.
_render_simnode(node, attachments) ==
    LET vlan == _select_vlan(node, attachments)
        interface == _select_interface(node, attachments)
    IN [name |-> node.name,
        config |-> IF Given(interface) /\ Given(NodeIpAddress(node))
                   THEN Some(NodeInterfaceConfig(node.name, interface[1],
                                                 NodeIpAddress(node)[1], vlan))
                   ELSE None]

\* link_name of _render_simlink and of _render_topolink.
LinkName(attachment) ==
    _slugify(attachment.fabric_node) \o <<"-">>
    \o _slugify(attachment.fabric_interface) \o <<"-">>
    \o _slugify(attachment.sim_node)

InterfaceResource(node, interface) == _slugify(node) \o <<"-">> \o _slugify(interface)

_render_simlink(attachment) ==
    [name |-> LinkName(attachment),
     local |-> [node |-> attachment.fabric_node,
                interface |-> attachment.fabric_interface,
                interfaceResource |-> InterfaceResource(attachment.fabric_node,
                                                        attachment.fabric_interface)],
     sim |-> [node |-> attachment.sim_node,
              interface |-> attachment.sim_interface,
              interfaceResource |-> InterfaceResource(attachment.sim_node,
                                                      attachment.sim_interface)]]

_render_topolink(attachment) ==
    [name |-> LinkName(attachment),
     local |-> [node |-> attachment.fabric_node,
                interface |-> attachment.fabric_interface,
                interfaceResource |-> InterfaceResource(attachment.fabric_node,
                                                        attachment.fabric_interface)],
     remote |-> [node |-> attachment.sim_node,
                 interface |-> attachment.sim_interface,
                 interfaceResource |-> InterfaceResource(attachment.sim_node,
                                                         attachment.sim_interface)]]

\* _render_bundle on a SimulationSpec: nodes holds the items of the nodes
\* dict in insertion order.
_render_bundle(spec) ==
    LET ordered_nodes == [i \in 1..Len(spec.nodes) |-> spec.nodes[i][2]]
        rendered == [i \in 1..Len(ordered_nodes) |->
                        _render_simnode(ordered_nodes[i],
                                        _attachments_by_node(spec.attachments,
                                                             ordered_nodes[i].name))]
        with_config == SelectSeq(rendered, LAMBDA r : ~IsNone(r.config))
    IN [sim_nodes |-> [i \in 1..Len(ordered_nodes) |-> ordered_nodes[i].name],
        node_configs |-> [i \in 1..Len(with_config) |-> with_config[i].config[1]],
        summaries |->
            [i \in 1..Len(rendered) |-> ResourceSummary("SimNode", rendered[i].name)]
            \o [i \in 1..Len(spec.attachments) |->
                   ResourceSummary("SimLink", _render_simlink(spec.attachments[i]).name)]
            \o [i \in 1..Len(spec.attachments) |->
                   ResourceSummary("TopoLink", _render_topolink(spec.attachments[i]).name)]]

\* One "&&"-joined step of the shell command pushed into the pod.
Step(op, dev, arg) == [op |-> op, dev |-> dev, arg |-> arg]

\* command_str without the test that guards the creation of the
\* sub-interface.
Mutant_command_str(config) ==
    IF Given(config.vlan)
    THEN LET vlan_iface == config.interface \o <<".">> \o config.vlan[1] IN
         << Step("ip link set up", config.interface, <<>>),
            Step("ip link add link type vlan id", vlan_iface, config.vlan[1]),
            Step("ip link set up", vlan_iface, <<>>),
            Step("ip addr flush dev", vlan_iface, <<>>),
            Step("ip addr add dev", vlan_iface, config.ip_address) >>
    ELSE << Step("ip addr flush dev", config.interface, <<>>),
            Step("ip addr add dev", config.interface, config.ip_address),
            Step("ip link set up", config.interface, <<>>) >>

\* command_str of _configure_linux_interfaces: on the VLAN sub-interface
\* when the config has a VLAN, on the interface itself otherwise.
command_str(config) ==
    IF Given(config.vlan)
    THEN LET vlan_iface == config.interface \o <<".">> \o config.vlan[1] IN
         << Step("ip link set up", config.interface, <<>>),
            Step("ip link show || ip link add link type vlan id", vlan_iface,
                 config.vlan[1]),
            Step("ip link set up", vlan_iface, <<>>),
            Step("ip addr flush dev", vlan_iface, <<>>),
            Step("ip addr add dev", vlan_iface, config.ip_address) >>
    ELSE << Step("ip addr flush dev", config.interface, <<>>),
            Step("ip addr add dev", config.interface, config.ip_address),
            Step("ip link set up", config.interface, <<>>) >>

----------------------------------------------------------------------------
\* ---- the inputs of the selector-matching specification ----

MaxSelectors == 2

MaxSelInterfaces == 2

\* Selector strings: bare keys, key=value, surrounding whitespace, an empty
\* key, the empty string, and a value that itself contains "=".
SelectorCatalog ==
    { <<"a">>, <<"b">>,
      <<"a", "=", "1">>, <<"a", "=", "2">>,
      <<" ", "a", " ", "=", " ", "1", " ">>,
      <<"=", "1">>, <<" ">>, <<>>,
      <<"b", "=", "1", "=", "2">> }

LabelsA1 == [k \in {<<"a">>} |-> <<"1">>]

LabelsA2B == [k \in {<<"a">>, <<"b">>} |-> IF k = <<"a">> THEN <<"2">> ELSE <<"1", "=", "2">>]

LabelsNone == [k \in {} |-> <<>>]

\* Entries of the interfaces dict, keyed by metadata.name ("" when the item
\* carries no name, auto.py line 82).
SelItemCatalog ==
    { << <<>>,    Interface(TRUE, LabelsA1, <<>>) >>,
      << <<"x">>, Interface(TRUE, LabelsA1, <<>>) >>,
      << <<"y">>, Interface(TRUE, LabelsA2B, <<>>) >>,
      << <<"z">>, Interface(TRUE, LabelsNone, <<>>) >>,
      << <<"w">>, Interface(FALSE, LabelsNone, <<>>) >> }

SelInit ==
    /\ sel_pc = "call"
    /\ sel_selectors \in SeqsUpTo(SelectorCatalog, MaxSelectors)
    /\ sel_interfaces \in DistinctSeqsUpTo(SelItemCatalog, MaxSelInterfaces)
    /\ sel_matches = <<>>

AutoOff ==
    /\ au_pc = "off"
    /\ au_vns = <<>>
    /\ au_ifaces = <<>>
    /\ au_vi = 0
    /\ au_defs = <<>>
    /\ au_di = 0
    /\ au_matches = <<>>
    /\ au_mi = 0
    /\ au_col = EmptyCollection
    /\ au_raw = <<>>
    /\ au_renamed = None
    /\ au_plan = None
    /\ au_error = ""

MergeOff ==
    /\ mg_pc = "off"
    /\ mg_nodes = EmptyDict
    /\ mg_atts = <<>>
    /\ mg_result = None

WorkflowOff ==
    /\ wf_pc = "off"
    /\ wf_op = ""
    /\ wf_debug = FALSE
    /\ wf_emit_crds = FALSE
    /\ wf_bundle = None
    /\ wf_file = FALSE
    /\ wf_i = 0
    /\ wf_caller = ""
    /\ wf_sim_node = ""
    /\ wf_remaining = 0
    /\ wf_pod_name = ""
    /\ wf_pods = [n \in {} |-> ""]
    /\ wf_lingering = <<>>
    /\ wf_error = NoFailure
    /\ wf_dry = "none"
    /\ wf_real = "none"
    /\ wf_polled = {}
    /\ wf_ready = {}
    /\ wf_late = {}
    /\ wf_expired = {}
    /\ wf_exec = {}
    /\ wf_echo = {}
    /\ wf_present = <<>>
    /\ wf_output = [c \in {} |-> ""]
    /\ wf_exec_error = ""

PodOff ==
    /\ pd_pc = "off"
    /\ pd_config = None
    /\ pd_init = <<>>
    /\ pd_links = <<>>
    /\ pd_pass = 0
    /\ pd_step = 0
    /\ pd_cut = -1

ParseOff ==
    /\ ps_pc = "off"
    /\ ps_raw = None
    /\ ps_sim_nodes_raw = <<>>
    /\ ps_topology_raw = <<>>
    /\ ps_nodes = <<>>
    /\ ps_attachments = <<>>
    /\ ps_error = NoError

SelOff ==
    /\ sel_pc = "off"
    /\ sel_selectors = <<>>
    /\ sel_interfaces = <<>>
    /\ sel_matches = <<>>

\* One call of _matching_interfaces(selectors, interfaces).
MatchingInterfaces ==
    /\ sel_pc = "call"
    /\ sel_matches' = _matching_interfaces(sel_selectors, sel_interfaces)
    /\ sel_pc' = "done"
    /\ UNCHANGED <<sel_selectors, sel_interfaces, notSel>>

\* ---- the inputs of the IP pool specification ----

\* The largest number of host bits of a drawn subnet (8: a /24).
MaxHostBits == 8

\* 10.20.1.0, the subnet of tests/test_auto_plan.py.
BaseNetwork == (10 * 256 * 65536) + (20 * 65536) + (1 * 256)

IpOff ==
    /\ ip_pc = "off"
    /\ ip_iface = None
    /\ ip_gen = None
    /\ ip_yielded = <<>>

IpInit ==
    /\ ip_pc = "running"
    /\ \E hostbits \in 0..MaxHostBits :
        \E offset \in 0..(Pow2(hostbits) - 1) :
            ip_iface = [ip |-> BaseNetwork + offset, prefixlen |-> AddrBits - hostbits]
    /\ ip_gen = _ip_allocator(ip_iface.ip, ip_iface.prefixlen)
    /\ ip_yielded = <<>>

\* next(pool) returns an address.
IpNext ==
    /\ ip_pc = "running"
    /\ LET r == GenNext(ip_gen) IN
        /\ ~IsNone(r.value)
        /\ ip_yielded' = Append(ip_yielded, r.value[1])
        /\ ip_gen' = r.gen
    /\ UNCHANGED <<ip_pc, ip_iface, notIp>>

\* next(pool) raises StopIteration.
IpStop ==
    /\ ip_pc = "running"
    /\ LET r == GenNext(ip_gen) IN
        /\ IsNone(r.value)
        /\ ip_gen' = r.gen
    /\ ip_pc' = "exhausted"
    /\ UNCHANGED <<ip_yielded, ip_iface, notIp>>

InitIp ==
    IpInit /\ SelOff /\ AutoOff /\ MergeOff /\ ParseOff /\ WorkflowOff /\ PodOff

NextIp == IpNext \/ IpStop

SpecIp == InitIp /\ [][NextIp]_vars

\* C2: the sequence produced by _ip_allocator never contains the gateway
\* address, contains only addresses inside the gateway's subnet (with the
\* subnet's prefix length), and is strictly ascending; for a /24 whose gateway
\* is .254 the first address yielded is .1/24.
C2_PoolExcludesGatewayInSubnetAscending ==
    ip_pc # "off" =>
        LET plen == ip_iface.prefixlen
            size == Pow2(AddrBits - plen)
            network == ip_iface.ip - (ip_iface.ip % size)
        IN
        /\ \A i \in 1..Len(ip_yielded) :
            /\ ip_yielded[i].addr # ip_iface.ip
            /\ ip_yielded[i].addr >= network
            /\ ip_yielded[i].addr < network + size
            /\ ip_yielded[i].prefixlen = plen
        /\ \A i \in 1..(Len(ip_yielded) - 1) :
            ip_yielded[i].addr < ip_yielded[i + 1].addr
        /\ (plen = 24 /\ ip_iface.ip = network + 254 /\ Len(ip_yielded) >= 1)
           => ip_yielded[1] = [addr |-> network + 1, prefixlen |-> 24]

\* The /24 pool with gateway .254 has been drawn to its end: .1 first, 253
\* addresses in all, .253 last.
C2_Witness ==
    /\ ip_pc = "exhausted"
    /\ ip_iface = [ip |-> BaseNetwork + 254, prefixlen |-> 24]
    /\ Len(ip_yielded) = 253
    /\ ip_yielded[1].addr = BaseNetwork + 1
    /\ ip_yielded[253].addr = BaseNetwork + 253

InitSel ==
    SelInit /\ IpOff /\ AutoOff /\ MergeOff /\ ParseOff /\ WorkflowOff /\ PodOff

NextSel == MatchingInterfaces

SpecSel == InitSel /\ [][NextSel]_vars

\* The claim's own reading of "a selector matches the labels": the part before
\* the first "=" is the key, the part after it the value, both trimmed.
SelectorAdmits(labels, selector) ==
    LET eq == IndexFrom(selector, "=", 1)
        key == Strip(IF eq = 0 THEN selector ELSE SubSeq(selector, 1, eq - 1))
        value == Strip(SubSeq(selector, eq + 1, Len(selector)))
    IN /\ key # <<>>
       /\ key \in DOMAIN labels
       /\ (eq # 0 => labels[key] = value)

LabelsOf(interface) ==
    IF interface.labels_is_dict THEN interface.labels ELSE LabelsNone

\* C1 as stated: an interface is returned iff at least one selector matches
\* its labels (whatever its resource name).
C1_AsStated ==
    sel_pc = "done" =>
        \A i \in 1..Len(sel_interfaces) :
            (sel_interfaces[i] \in Range(sel_matches))
            <=> (\E s \in Range(sel_selectors) :
                    SelectorAdmits(LabelsOf(sel_interfaces[i][2]), s))

\* C1 (amended): _matching_interfaces returns an interface iff its resource
\* name is non-empty and at least one selector of the list matches its labels
\* (key present for a bare key; key present with an equal string value for
\* key=value); a selector whose key is empty matches nothing.
C1_MatchingIffNamedAndSomeSelector ==
    sel_pc = "done" =>
        /\ \A i \in 1..Len(sel_interfaces) :
            (sel_interfaces[i] \in Range(sel_matches))
            <=> /\ sel_interfaces[i][1] # <<>>
                /\ \E s \in Range(sel_selectors) :
                      SelectorAdmits(LabelsOf(sel_interfaces[i][2]), s)
        /\ Range(sel_matches) \subseteq Range(sel_interfaces)
        /\ \A s \in Range(sel_selectors) :
            _parse_selector(s).key = <<>> =>
                \A i \in 1..Len(sel_interfaces) :
                    ~_matches_selector(sel_interfaces[i][2], s)

\* A named interface whose labels carry a=2 is returned for the selector list
\* ["a=1", "a"]: the first selector fails on the value, the second admits it.
C1_Witness ==
    /\ sel_pc = "done"
    /\ sel_selectors = << <<"a", "=", "1">>, <<"a">> >>
    /\ \E i \in 1..Len(sel_matches) : sel_matches[i][1] = <<"y">>
    /\ \E i \in 1..Len(sel_interfaces) :
        /\ sel_interfaces[i][1] = <<"x">>
        /\ sel_interfaces[i] \in Range(sel_matches)

----------------------------------------------------------------------------
\* One run of build_auto_plan over cluster content drawn from a catalogue.

MaxVNs == 2

MaxInterfaces == 2

Net2 == BaseNetwork + 256

Net3 == BaseNetwork + 512

Ip(ip, prefixlen, primary) == [ip |-> ip, prefixlen |-> prefixlen, primary |-> primary]

Vlan(name, bridgeDomain, selectors, vlanID) ==
    [name |-> name, bridgeDomain |-> bridgeDomain, selectors |-> selectors,
     vlanID |-> vlanID]

\* VLAN 10 selected by label a, no IRB interface and so no pool (macvrf1001
\* of tests/test_auto_plan.py).
VnM ==
    [name |-> <<"m">>,
     irbInterfaces |-> <<>>,
     vlans |-> << Vlan(Some(<<"m">>), Some(<<"m">>), << <<"a">> >>, Some(<<"1", "0">>)) >>]

\* VLAN 2 selected by label b with the /24 pool of gateway .254, VLAN 3
\* selected by label c with a /30 pool (ipvrf2001 of the tests).
VnR ==
    [name |-> <<"r">>,
     irbInterfaces |->
        << [bridgeDomain |-> Some(<<"x">>),
            ipAddresses |-> << Ip(BaseNetwork + 100, 24, FALSE),
                               Ip(BaseNetwork + 254, 24, TRUE) >>],
           [bridgeDomain |-> Some(<<"y">>),
            ipAddresses |-> << Ip(Net2 + 2, 30, FALSE) >>] >>,
     vlans |-> << Vlan(Some(<<"x">>), Some(<<"x">>), << <<"b">> >>, Some(<<"2">>)),
                  Vlan(Some(<<"y">>), Some(<<"y">>), << <<"c">> >>, Some(<<"3">>)) >>]

\* Two VLAN entries on one bridge domain with a /30 pool: the first reuses the
\* VLAN label m, the second has neither a name nor a VLAN id; a third entry
\* has no selector.
VnS ==
    [name |-> <<"s">>,
     irbInterfaces |->
        << [bridgeDomain |-> Some(<<"z">>),
            ipAddresses |-> << Ip(Net3 + 1, 30, FALSE) >>] >>,
     vlans |-> << Vlan(Some(<<"m">>), Some(<<"z">>), << <<"a">> >>, Some(<<"4">>)),
                  Vlan(None, Some(<<"z">>), << <<"b", "=", "1">>, <<"c">> >>, None),
                  Vlan(Some(<<"v">>), None, <<>>, Some(<<"5">>)) >>]

\* Point-to-point pools: VLAN 6 selected by label a on a /31 whose gateway is
\* the even address, VLAN 7 selected by label b on a /32.  The /31 is on a
\* bridge domain named z like the one of VirtualNetwork s.
VnT ==
    [name |-> <<"t">>,
     irbInterfaces |->
        << [bridgeDomain |-> Some(<<"z">>),
            ipAddresses |-> << Ip(Net3 + 16, 31, FALSE) >>],
           [bridgeDomain |-> Some(<<"u">>),
            ipAddresses |-> << Ip(Net3 + 33, 32, FALSE) >>] >>,
     vlans |-> << Vlan(Some(<<"w">>), Some(<<"z">>), << <<"a">> >>, Some(<<"6">>)),
                  Vlan(Some(<<"u">>), Some(<<"u">>), << <<"b">> >>, Some(<<"7">>)) >>]

VnCatalog == {VnM, VnR, VnS, VnT}

Labels(keys) == [k \in keys |-> <<"1">>]

Member(node, interface) == [node |-> node, interface |-> interface]

\* Entries of the interfaces dict.  e1 and e2 are the two leaf interfaces of
\* the tests; E1 lower-cases to the device name of e1; e4 has no members; one
\* item has no name; e6 has the endpoint of e2; E2 lower-cases to the device
\* name of e2 and has its endpoint too; the first member of e7 names a blank
\* node.
IfCatalog ==
    { << <<"e", "1">>, Interface(TRUE, Labels({<<"a">>, <<"b">>}),
            << Member(Some(<<"l", "1">>), Some(<<"p", "1">>)) >>) >>,
      << <<"e", "2">>, Interface(TRUE, Labels({<<"a">>, <<"c">>}),
            << Member(Some(<<"l", "2">>), Some(<<"p", "1">>)) >>) >>,
      << <<"E", "1">>, Interface(TRUE, Labels({<<"b">>}),
            << Member(Some(<<"l", "3">>), Some(<<"p", "1">>)),
               Member(Some(<<"l", "4">>), Some(<<"p", "1">>)) >>) >>,
      << <<"e", "4">>, Interface(TRUE, Labels({<<"a">>, <<"b">>}), <<>>) >>,
      << <<>>, Interface(TRUE, Labels({<<"a">>, <<"b">>}),
            << Member(Some(<<"l", "5">>), Some(<<"p", "1">>)) >>) >>,
      << <<"e", "6">>, Interface(TRUE, Labels({<<"a">>, <<"c">>}),
            << Member(Some(<<"l", "2">>), Some(<<"p", "1">>)) >>) >>,
      << <<"E", "2">>, Interface(TRUE, Labels({<<"c">>}),
            << Member(Some(<<"l", "2">>), Some(<<"p", "1">>)) >>) >>,
      << <<"e", "7">>, Interface(TRUE, Labels({<<"c">>}),
            << Member(Some(<<" ">>), Some(<<"p", "1">>)) >>) >> }

AutoInit ==
    /\ au_pc = "load"
    /\ au_vns \in DistinctSeqsUpTo(VnCatalog, MaxVNs)
    /\ au_ifaces \in DistinctSeqsUpTo(IfCatalog, MaxInterfaces)
    /\ au_vi = 0
    /\ au_defs = <<>>
    /\ au_di = 0
    /\ au_matches = <<>>
    /\ au_mi = 0
    /\ au_col = EmptyCollection
    /\ au_raw = <<>>
    /\ au_renamed = None
    /\ au_plan = None
    /\ au_error = ""

\* build_auto_plan raises: no VirtualNetwork or no Interface was loaded.
LoadFails ==
    /\ au_pc = "load"
    /\ au_vns = <<>> \/ au_ifaces = <<>>
    /\ au_error' = (IF au_vns = <<>> THEN "NoVirtualNetworks" ELSE "NoInterfaces")
    /\ au_pc' = "error"
    /\ UNCHANGED <<au_vns, au_ifaces, au_vi, au_defs, au_di, au_matches, au_mi,
                   au_col, au_raw, au_renamed, au_plan, notAuto>>

\* build_auto_plan enters _collect_auto_attachments.
BeginCollect ==
    /\ au_pc = "load"
    /\ au_vns # <<>> /\ au_ifaces # <<>>
    /\ au_vi' = 1
    /\ au_pc' = "vn"
    /\ UNCHANGED <<au_vns, au_ifaces, au_defs, au_di, au_matches, au_mi, au_col,
                   au_raw, au_renamed, au_plan, au_error, notAuto>>

\* for vn in virtual_networks: _gather_vlan_definitions(vn).
GatherDefinitions ==
    /\ au_pc = "vn"
    /\ au_vi <= Len(au_vns)
    /\ LET g == _gather_vlan_definitions(au_vns[au_vi]) IN
        /\ au_defs' = g.definitions
        /\ au_col' = [au_col EXCEPT !.pools = g.allocators]
    /\ au_di' = 1
    /\ au_pc' = "def"
    /\ UNCHANGED <<au_vns, au_ifaces, au_vi, au_matches, au_mi, au_raw,
                   au_renamed, au_plan, au_error, notAuto>>

\* for definition in ...: matches = _matching_interfaces(...).
MatchDefinition ==
    /\ au_pc = "def"
    /\ au_di <= Len(au_defs)
    /\ au_matches' = _matching_interfaces(au_defs[au_di].selectors, au_ifaces)
    /\ au_mi' = 1
    /\ au_pc' = "match"
    /\ UNCHANGED <<au_vns, au_ifaces, au_vi, au_defs, au_di, au_col, au_raw,
                   au_renamed, au_plan, au_error, notAuto>>

\* The definitions of the VirtualNetwork are done: the next VirtualNetwork.
EndDefinitions ==
    /\ au_pc = "def"
    /\ au_di > Len(au_defs)
    /\ au_vi' = au_vi + 1
    /\ au_pc' = "vn"
    /\ UNCHANGED <<au_vns, au_ifaces, au_defs, au_di, au_matches, au_mi, au_col,
                   au_raw, au_renamed, au_plan, au_error, notAuto>>

CurDef == au_defs[au_di]

CurName == au_matches[au_mi][1]

CurInterface == au_matches[au_mi][2]

\* The (VLAN label, interface) pair was seen before: continue.
SkipSeenPair ==
    /\ au_pc = "match"
    /\ au_mi <= Len(au_matches)
    /\ PairSeen(au_col, CurDef, CurName)
    /\ au_col' = CollectOne(au_col, CurDef, CurName, CurInterface)
    /\ au_mi' = au_mi + 1
    /\ UNCHANGED <<au_pc, au_vns, au_ifaces, au_vi, au_defs, au_di, au_matches,
                   au_raw, au_renamed, au_plan, au_error, notAuto>>

\* The interface gives no (node, port) endpoint: the pair is recorded and the
\* interface skipped.
SkipNoEndpoint ==
    /\ au_pc = "match"
    /\ au_mi <= Len(au_matches)
    /\ ~PairSeen(au_col, CurDef, CurName)
    /\ EndpointMissing(CurInterface)
    /\ au_col' = CollectOne(au_col, CurDef, CurName, CurInterface)
    /\ au_mi' = au_mi + 1
    /\ UNCHANGED <<au_pc, au_vns, au_ifaces, au_vi, au_defs, au_di, au_matches,
                   au_raw, au_renamed, au_plan, au_error, notAuto>>

\* An address is drawn from the pool (if any), the node record is created or
\* completed, and the attachment appended.
Attach ==
    /\ au_pc = "match"
    /\ au_mi <= Len(au_matches)
    /\ ~PairSeen(au_col, CurDef, CurName)
    /\ ~EndpointMissing(CurInterface)
    /\ au_col' = CollectOne(au_col, CurDef, CurName, CurInterface)
    /\ au_mi' = au_mi + 1
    /\ UNCHANGED <<au_pc, au_vns, au_ifaces, au_vi, au_defs, au_di, au_matches,
                   au_raw, au_renamed, au_plan, au_error, notAuto>>

\* The matches of the definition are done: the next definition.
EndMatches ==
    /\ au_pc = "match"
    /\ au_mi > Len(au_matches)
    /\ au_di' = au_di + 1
    /\ au_pc' = "def"
    /\ UNCHANGED <<au_vns, au_ifaces, au_vi, au_defs, au_matches, au_mi, au_col,
                   au_raw, au_renamed, au_plan, au_error, notAuto>>

\* The loops are done: attachments = _merge_attachments(sim_nodes, attachments)
\* and _collect_auto_attachments returns.
Merge ==
    /\ au_pc = "vn"
    /\ au_vi > Len(au_vns)
    /\ LET m == _merge_attachments(au_col.sim_nodes, au_col.attachments) IN
        au_col' = [au_col EXCEPT !.sim_nodes = m.sim_nodes,
                                 !.attachments = m.attachments]
    /\ au_raw' = au_col.attachments
    /\ au_pc' = "collected"
    /\ UNCHANGED <<au_vns, au_ifaces, au_vi, au_defs, au_di, au_matches, au_mi,
                   au_renamed, au_plan, au_error, notAuto>>

\* build_auto_plan raises: no interface matched.
NoMatches ==
    /\ au_pc = "collected"
    /\ au_col.attachments = <<>>
    /\ au_error' = "NoMatches"
    /\ au_pc' = "error"
    /\ UNCHANGED <<au_vns, au_ifaces, au_vi, au_defs, au_di, au_matches, au_mi,
                   au_col, au_raw, au_renamed, au_plan, notAuto>>

RenameServers ==
    /\ au_pc = "collected"
    /\ au_col.attachments # <<>>
    /\ au_renamed' = Some(_rename_servers(au_col.sim_nodes, au_col.attachments))
    /\ au_pc' = "renamed"
    /\ UNCHANGED <<au_vns, au_ifaces, au_vi, au_defs, au_di, au_matches, au_mi,
                   au_col, au_raw, au_plan, au_error, notAuto>>

\* raw_spec is assembled and the AutoPlan returned.
ReturnPlan ==
    /\ au_pc = "renamed"
    /\ au_plan' = Some(AutoPlan(au_renamed[1].sim_nodes, au_renamed[1].attachments))
    /\ au_pc' = "done"
    /\ UNCHANGED <<au_vns, au_ifaces, au_vi, au_defs, au_di, au_matches, au_mi,
                   au_col, au_raw, au_renamed, au_error, notAuto>>

InitAuto ==
    AutoInit /\ SelOff /\ IpOff /\ MergeOff /\ ParseOff /\ WorkflowOff /\ PodOff

NextAuto ==
    \/ LoadFails
    \/ BeginCollect
    \/ GatherDefinitions
    \/ MatchDefinition
    \/ EndDefinitions
    \/ SkipSeenPair
    \/ SkipNoEndpoint
    \/ Attach
    \/ EndMatches
    \/ Merge
    \/ NoMatches
    \/ RenameServers
    \/ ReturnPlan

SpecAuto == InitAuto /\ [][NextAuto]_vars

\* The step machine returns what the function returns.
AutoAgreesWithFunction ==
    /\ au_pc = "done" => build_auto_plan(au_vns, au_ifaces) = [error |-> "", plan |-> au_plan]
    /\ au_pc = "error" => build_auto_plan(au_vns, au_ifaces) = [error |-> au_error, plan |-> None]

----------------------------------------------------------------------------
\* One call of _merge_attachments on a drawn attachments list.

MaxMergeAttachments == 2

MergeEndpoint(interface_name) ==
    << Some(<<"l">> \o Tail(interface_name)), Some(<<"p", "1">>) >>

AddressA == [addr |-> BaseNetwork + 1, prefixlen |-> 24]

\* The attachments collection can create on the interfaces e1 and e2.
MergeAttachmentDomain ==
    { AutoAttachment([virtual_network |-> vn, vlan_name |-> vlan_name,
                      vlan_id |-> vlan_id],
                     interface_name, MergeEndpoint(interface_name),
                     _generate_sim_name(interface_name), ip_address) :
        vn \in {<<"m">>, <<"r">>},
        vlan_name \in {<<"x">>, <<"y">>},
        vlan_id \in {None, Some(<<"1", "0">>), Some(<<"2">>)},
        interface_name \in {<<"e", "1">>, <<"e", "2">>},
        ip_address \in {None, Some(AddressA)} }

\* The sim_nodes dict as the collection loop leaves it for an attachments
\* list: every attachment's device has a record, seeded first-writer-wins.
RECURSIVE SeededNodes(_, _, _)
SeededNodes(attachments, i, sim_nodes) ==
    IF i > Len(attachments) THEN sim_nodes
    ELSE LET a == attachments[i]
             node_entry == IF a.sim_name \in DOMAIN sim_nodes
                           THEN sim_nodes[a.sim_name] ELSE NewNodeEntry(a.sim_name)
         IN SeededNodes(attachments, i + 1,
                DictSet(sim_nodes, a.sim_name,
                        SeedNode(node_entry, a.vlan_id, a.ip_address)))

\* seen_pairs keeps (VLAN label, interface name) pairs apart.
PairsDistinct(attachments) ==
    \A i, j \in 1..Len(attachments) :
        i # j => \/ attachments[i].vlan_name # attachments[j].vlan_name
                 \/ attachments[i].interface_name # attachments[j].interface_name

MergeInit ==
    /\ mg_pc = "call"
    /\ mg_atts \in {a \in SeqsUpTo(MergeAttachmentDomain, MaxMergeAttachments) :
                        PairsDistinct(a)}
    /\ mg_nodes = SeededNodes(mg_atts, 1, EmptyDict)
    /\ mg_result = None

MergeAttachments ==
    /\ mg_pc = "call"
    /\ mg_result' = Some(_merge_attachments(mg_nodes, mg_atts))
    /\ mg_pc' = "done"
    /\ UNCHANGED <<mg_nodes, mg_atts, notMerge>>

InitMerge ==
    MergeInit /\ SelOff /\ IpOff /\ AutoOff /\ ParseOff /\ WorkflowOff /\ PodOff

NextMerge == MergeAttachments

SpecMerge == InitMerge /\ [][NextMerge]_vars

HasIp(att) == ~IsNone(att.ip_address)

\* C5: for any two attachments on the same fabric interface resource of which
\* exactly one has an allocated IP, _merge_attachments chooses the one with
\* the IP as primary, whichever of the two comes first in the input list.
C5_IpBearingIsPrimary ==
    mg_pc = "done" =>
        \A i, j \in 1..Len(mg_atts) :
            (/\ i # j
             /\ mg_atts[i].interface_name = mg_atts[j].interface_name
             /\ Len(GroupOf(mg_atts, mg_atts[i].interface_name)) = 2
             /\ HasIp(mg_atts[i]) /\ ~HasIp(mg_atts[j]))
            => /\ mg_atts[i] \in Range(mg_result[1].attachments)
               /\ mg_atts[j] \notin Range(mg_result[1].attachments)

\* The attachment without an IP comes first and has the lesser VLAN id, and
\* the one with the IP, second in the list, is the primary.
C5_Witness ==
    /\ mg_pc = "done"
    /\ Len(mg_atts) = 2
    /\ mg_atts[1].interface_name = mg_atts[2].interface_name
    /\ ~HasIp(mg_atts[1]) /\ HasIp(mg_atts[2])
    /\ mg_atts[1].vlan_id = Some(<<"1", "0">>) /\ mg_atts[2].vlan_id = Some(<<"2">>)
    /\ mg_result[1].attachments = <<mg_atts[2]>>

----------------------------------------------------------------------------
\* Properties of the plan build_auto_plan returns (SpecAuto).

RECURSIVE AllDefinitions(_, _)
AllDefinitions(virtual_networks, i) ==
    IF i > Len(virtual_networks) THEN <<>>
    ELSE _gather_vlan_definitions(virtual_networks[i]).definitions
         \o AllDefinitions(virtual_networks, i + 1)

\* The VLAN definitions whose selectors select an entry of the interfaces dict.
SelectingDefinitions(item) ==
    LET definitions == AllDefinitions(au_vns, 1) IN
    {k \in 1..Len(definitions) :
        item \in Range(_matching_interfaces(definitions[k].selectors, au_ifaces))}

\* The attachments created for an interface resource before the merge, and
\* the attachments of the returned plan for it.
CandidatesFor(interface_name) ==
    {r \in Range(au_raw) : r.interface_name = interface_name}

PlanAttachmentsFor(interface_name) ==
    {k \in 1..Len(au_plan[1].attachments) :
        au_plan[1].attachments[k].interface_name = interface_name}

OneAttachmentWithIpIfAny(interface_name) ==
    /\ Cardinality(PlanAttachmentsFor(interface_name)) = 1
    /\ (\E r \in CandidatesFor(interface_name) : HasIp(r))
       => \A k \in PlanAttachmentsFor(interface_name) :
              HasIp(au_plan[1].attachments[k])

ServerOf(interface_name) ==
    au_plan[1].attachments[CHOOSE k \in PlanAttachmentsFor(interface_name) : TRUE].sim_name

\* C4: for every selector match (a fabric interface selected by a VLAN
\* definition) plan.attachments and raw_spec["topology"] contain an entry for
\* that (sim node, VLAN id) pair.
C4_EverySelectorMatchKept ==
    au_pc = "done" =>
        \A r \in Range(au_raw) :
            /\ \E p \in Range(au_plan[1].attachments) :
                  p.sim_name = ServerOf(r.interface_name) /\ p.vlan_id = r.vlan_id
            /\ \E t \in Range(au_plan[1].raw_spec.topology) :
                  t.simNode = ServerOf(r.interface_name) /\ t.vlan = r.vlan_id

\* The node record of a server name in raw_spec["simNodes"].
NodeRecord(sim_name) ==
    CHOOSE n \in Range(au_plan[1].raw_spec.simNodes) : n.name = sim_name

\* C7: after merging, the node record of a sim node whose interface was
\* selected by several VLANs carries the primary attachment's VLAN id and IP
\* address.  (Stated for sim nodes that serve a single interface resource.)
C7_NodeCarriesPrimaryValues ==
    au_pc = "done" =>
        \A p \in Range(au_plan[1].attachments) :
            (/\ Cardinality(CandidatesFor(p.interface_name)) >= 2
             /\ \A q \in Range(au_plan[1].attachments) :
                    q.sim_name = p.sim_name => q = p)
            => /\ ~IsNone(p.vlan_id) => NodeRecord(p.sim_name).vlan = p.vlan_id
               /\ HasIp(p) => NodeRecord(p.sim_name).ipAddress = p.ip_address

OrderingsOf(n) ==
    {f \in [1..n -> 1..n] : \A i, j \in 1..n : f[i] = f[j] => i = j}

Permute(s, f) == [i \in 1..Len(s) |-> s[f[i]]]

NameAssignment(plan) ==
    {<<a.interface_name, a.sim_name>> : a \in Range(plan.attachments)}

\* C6: permuting the loaded VirtualNetworks and Interfaces yields
\* the same node records, the same topology entries and the same server name
\* for each fabric interface.
C6_PlanIndependentOfOrder ==
    au_pc = "done" =>
        \A pv \in OrderingsOf(Len(au_vns)), pi \in OrderingsOf(Len(au_ifaces)) :
            LET q == build_auto_plan(Permute(au_vns, pv), Permute(au_ifaces, pi)).plan IN
            /\ ~IsNone(q)
            /\ Range(q[1].raw_spec.simNodes) = Range(au_plan[1].raw_spec.simNodes)
            /\ Range(q[1].raw_spec.topology) = Range(au_plan[1].raw_spec.topology)
            /\ NameAssignment(q[1]) = NameAssignment(au_plan[1])

----------------------------------------------------------------------------
\* One call of parse_simulation_spec on a drawn raw mapping.

MaxSpecEntries == 3

\* Entries of "simNodes": a with an address, " a" (strips to a), b with padded
\* image and type, a VLAN of its own and an address, a node without an image,
\* a node with a blank name, a non-mapping.
SimNodeCatalog ==
    { Mapping([name |-> Str(<<"a">>), image |-> Str(<<"i">>),
               ipAddress |-> Str(<<"1", "/", "2", "4">>)]),
      Mapping([name |-> Str(<<" ", "a">>), image |-> Str(<<"i">>), type |-> Str(<<"t">>)]),
      Mapping([name |-> Str(<<"b">>), image |-> Str(<<" ", "i", " ">>),
               type |-> Str(<<" ", "t">>), vlan |-> Str(<<"3", "0">>),
               ipAddress |-> Str(<<"2", "/", "2", "4">>)]),
      Mapping([name |-> Str(<<"c">>), type |-> Str(<<"t">>)]),
      Mapping([name |-> Str(<<" ">>), image |-> Str(<<"i">>)]),
      NotMapping }

\* Entries of "topology": references to a, " a", b and to the unknown c, an
\* entry with the unknown c and an empty fabric node, an entry whose simNode
\* is not a string, a second entry for a on VLAN 20, an entry for a without
\* a VLAN, a non-mapping.
TopologyCatalog ==
    { Mapping([node |-> Str(<<"l", "1">>), interface |-> Str(<<"p", "1">>),
               simNode |-> Str(<<"a">>), simNodeInterface |-> Str(<<"e", "t", "h", "1">>),
               vlan |-> Str(<<"1", "0">>)]),
      Mapping([node |-> Str(<<" ", "l", "1", " ">>), interface |-> Str(<<"p", "2">>),
               simNode |-> Str(<<" ", "a">>), vlan |-> IntValue(<<"0">>),
               vlanId |-> IntValue(<<"2">>)]),
      Mapping([node |-> Str(<<"l", "2">>), interface |-> Str(<<"p", "1">>),
               simNode |-> Str(<<"b">>), simNodeInterface |-> Str(<<>>)]),
      Mapping([node |-> Str(<<"l", "2">>), interface |-> Str(<<"p", "2">>),
               simNode |-> Str(<<"c">>), simNodeInterface |-> Str(<<"e", "t", "h", "1">>)]),
      Mapping([node |-> Str(<<>>), interface |-> Str(<<"p", "3">>),
               simNode |-> Str(<<"c">>), simNodeInterface |-> Str(<<"e", "t", "h", "1">>)]),
      Mapping([node |-> Str(<<"l", "3">>), interface |-> Str(<<"p", "1">>),
               simNode |-> IntValue(<<"7">>)]),
      Mapping([node |-> Str(<<"l", "1">>), interface |-> Str(<<"p", "2">>),
               simNode |-> Str(<<"a">>), simNodeInterface |-> Str(<<"e", "t", "h", "1">>),
               vlan |-> Str(<<"2", "0">>)]),
      Mapping([node |-> Str(<<"l", "3">>), interface |-> Str(<<"p", "3">>),
               simNode |-> Str(<<"a">>), simNodeInterface |-> Str(<<"e", "t", "h", "1">>)]),
      NotMapping }

ListValue(items) == [kind |-> "list", s |-> <<>>, items |-> items]

RawLists(Catalog, n) ==
    {ListValue(l) : l \in SeqsUpTo(Catalog, n)}
    \cup {[kind |-> "null", s |-> <<>>, items |-> <<>>],
          [kind |-> "str", s |-> <<"x">>, items |-> <<>>]}

ParseInit ==
    /\ ps_pc = "base"
    /\ \E wrapper \in {"none", "spec", "items", "items-empty", "items-no-spec"},
          simNodes \in RawLists(SimNodeCatalog, MaxSpecEntries),
          topology \in RawLists(TopologyCatalog, MaxSpecEntries) :
        /\ Len(simNodes.items) + Len(topology.items) <= MaxSpecEntries
        /\ ps_raw = Some([wrapper |-> wrapper, simNodes |-> simNodes,
                          topology |-> topology])
    /\ ps_sim_nodes_raw = <<>>
    /\ ps_topology_raw = <<>>
    /\ ps_nodes = <<>>
    /\ ps_attachments = <<>>
    /\ ps_error = NoError

\* parse_simulation_spec up to the two _ensure_list calls.
ParseBase ==
    /\ ps_pc = "base"
    /\ LET base == SelectBase(ps_raw[1]) IN
        /\ ps_error' = base.error
        /\ ps_sim_nodes_raw' = base.simNodes
        /\ ps_topology_raw' = base.topology
        /\ ps_pc' = IF base.error # NoError THEN "error" ELSE "nodes"
    /\ UNCHANGED <<ps_raw, ps_nodes, ps_attachments, notParse>>

\* nodes = _parse_sim_nodes(sim_nodes_raw)
ParseSimNodes ==
    /\ ps_pc = "nodes"
    /\ LET r == _parse_sim_nodes(ps_sim_nodes_raw) IN
        /\ ps_error' = r.error
        /\ ps_nodes' = r.nodes
        /\ ps_pc' = IF r.error # NoError THEN "error" ELSE "topology"
    /\ UNCHANGED <<ps_raw, ps_sim_nodes_raw, ps_topology_raw, ps_attachments, notParse>>

\* attachments = _parse_attachments(topology_raw, known_nodes=nodes)
ParseAttachments ==
    /\ ps_pc = "topology"
    /\ LET r == _parse_attachments(ps_topology_raw, ps_nodes) IN
        /\ ps_error' = r.error
        /\ ps_attachments' = r.attachments
        /\ ps_pc' = IF r.error # NoError THEN "error" ELSE "done"
    /\ UNCHANGED <<ps_raw, ps_sim_nodes_raw, ps_topology_raw, ps_nodes, notParse>>

InitParse ==
    ParseInit /\ SelOff /\ IpOff /\ AutoOff /\ MergeOff /\ WorkflowOff /\ PodOff

NextParse == ParseBase \/ ParseSimNodes \/ ParseAttachments

SpecParse == InitParse /\ [][NextParse]_vars

\* The step machine returns what the function returns.
ParseAgreesWithFunction ==
    ps_pc \in {"done", "error"} =>
        parse_simulation_spec(ps_raw[1]) =
            [error |-> ps_error,
             spec |-> IF ps_pc = "done"
                      THEN Some([nodes |-> ps_nodes, attachments |-> ps_attachments])
                      ELSE None]

\* The topology entries and the simNodes names as written in the raw spec.
RawTopology ==
    IF ps_raw[1].topology.kind = "list" THEN ps_raw[1].topology.items ELSE <<>>

RawNodeNames ==
    IF ps_raw[1].simNodes.kind # "list" THEN {}
    ELSE {Get(n, "name").s : n \in {m \in Range(ps_raw[1].simNodes.items) :
                                       m.is_mapping /\ Get(m, "name").kind = "str"}}

HasSpecMapping == ps_raw[1].wrapper \in {"none", "spec", "items"}

\* A topology entry whose simNode is not among simNodes.
Unresolved(entry) ==
    /\ entry.is_mapping
    /\ NonBlankStr(Get(entry, "simNode"))
    /\ Get(entry, "simNode").s \notin RawNodeNames

NamesReference(error, entry) ==
    /\ error.message = "Topology entry references unknown simNode"
    /\ error.arg = Get(entry, "simNode").s

\* The entry's fabric node, fabric interface and sim interface are usable.
EndpointsGiven(entry) ==
    /\ entry.is_mapping
    /\ NonBlankStr(Get(entry, "node"))
    /\ NonBlankStr(Get(entry, "interface"))
    /\ NonBlankStr(Or(Get(entry, "simNodeInterface"), Get(entry, "interface")))

EveryAttachmentResolves ==
    ps_pc = "done" =>
        \A a \in Range(ps_attachments) :
            \E k \in 1..Len(ps_nodes) : ps_nodes[k][2].name = a.sim_node

\* C8 as stated: parse_simulation_spec raises or every attachment's sim_node
\* is the name of a validated SimNodeSpec; a topology entry whose simNode is
\* not among simNodes always raises an error naming the unresolved reference.
\* (Stated for specs whose simNodes list was validated.)
C8_AsStated ==
    (ps_pc \in {"done", "error"} /\ HasSpecMapping /\ ps_nodes # <<>>) =>
        /\ EveryAttachmentResolves
        /\ \A e \in Range(RawTopology) :
              Unresolved(e) => ps_pc = "error" /\ NamesReference(ps_error, e)

\* C8 (amended): parse_simulation_spec raises or every attachment's sim_node
\* is the name of a validated SimNodeSpec; a topology entry whose simNode is
\* not among simNodes is never dropped silently, parse_simulation_spec always
\* raises SpecError, and the error names the unresolved reference when that
\* entry is the first invalid thing found: simNodes validated, every earlier
\* topology entry valid, and the entry's own fabric node, fabric interface
\* and sim interface non-blank strings.
C8_UnresolvedReferenceRaises ==
    (ps_pc \in {"done", "error"} /\ HasSpecMapping) =>
        /\ EveryAttachmentResolves
        /\ \A k \in 1..Len(RawTopology) :
              Unresolved(RawTopology[k]) =>
                 /\ ps_pc = "error"
                 /\ (/\ ps_nodes # <<>>
                     /\ EndpointsGiven(RawTopology[k])
                     /\ \A j \in 1..(k - 1) :
                           /\ EndpointsGiven(RawTopology[j])
                           /\ NonBlankStr(Get(RawTopology[j], "simNode"))
                           /\ ~Unresolved(RawTopology[j]))
                    => NamesReference(ps_error, RawTopology[k])

\* simNodes holds a; the first topology entry refers to a, the second to the
\* unknown c, and the SpecError raised names c and lists a as available.
C8_Witness ==
    /\ ps_pc = "error"
    /\ Len(ps_nodes) = 1
    /\ Len(RawTopology) = 2
    /\ Get(RawTopology[1], "simNode") = Str(<<"a">>)
    /\ Unresolved(RawTopology[2])
    /\ ps_error = SpecError("Topology entry references unknown simNode",
                            <<"c">>, << <<"a">> >>)

----------------------------------------------------------------------------
\* One run of apply_simulation or remove_simulation on a rendered bundle.
\* Every external command returns an exit status and an output chosen by the
\* environment, after a time chosen by the environment.

MaxSimNodes == 2

SimNodeNames == {"a", "b", "c"}

EtcResults ==
    {Result(0, "", ""), Result(0, "resources", ""), Result(1, "", "rejected")}

GetPodResults(sim_node) ==
    {Result(0, "pod-" \o sim_node, ""), Result(0, "", ""), Result(1, "", "refused")}

WaitResults == {Result(0, "condition met", ""), Result(1, "", "timed out")}

ExecResults ==
    {Result(0, "", ""), Result(1, "", "Cannot find device"), Result(1, "", "denied")}

GetResults == {Result(0, "found", ""), Result(1, "", "not found")}

\* Seconds a short command takes, and seconds a kubectl wait --timeout=120s takes.
CommandSeconds == {0, SLEEP_SECONDS}

WaitSeconds == {0, WAIT_TIMEOUT_SECONDS \div 2, WAIT_TIMEOUT_SECONDS}

WorkflowInit ==
    /\ wf_pc = "start"
    /\ wf_op \in {"apply", "remove"}
    /\ wf_debug \in BOOLEAN
    /\ wf_emit_crds \in BOOLEAN
    /\ wf_op = "remove" => ~wf_emit_crds
    /\ \E names \in DistinctSeqsUpTo(SimNodeNames, MaxSimNodes) \ {<<>>} :
        \E configured \in SUBSET Range(names) :
            wf_bundle = RenderedBundle(names, configured)
    /\ wf_file = FALSE
    /\ wf_i = 0
    /\ wf_caller = ""
    /\ wf_sim_node = ""
    /\ wf_remaining = 0
    /\ wf_pod_name = ""
    /\ wf_pods = [n \in {} |-> ""]
    /\ wf_lingering = <<>>
    /\ wf_error = NoFailure
    /\ wf_dry = "none"
    /\ wf_real = "none"
    /\ wf_polled = {}
    /\ wf_ready = {}
    /\ wf_late = {}
    /\ wf_expired = {}
    /\ wf_exec = {}
    /\ wf_echo = {}
    /\ wf_present = <<>>
    /\ wf_output = [c \in {} |-> ""]
    /\ wf_exec_error = ""

\* A plausible slip: the finally clause is missing.
MutantAfterUnlink == wf_file

\* The finally clause: the scratch manifest is unlinked, a caller's file kept.
AfterUnlink == IF wf_emit_crds THEN wf_file ELSE FALSE

\* Where the workflow goes once the real command has succeeded.
AfterRealRun ==
    IF wf_op = "apply" THEN "collect"
    ELSE IF wf_debug THEN "dump" ELSE "verify"

\* Where apply goes once the configuration pass is over.
AfterConfigure == IF wf_debug THEN "dump" ELSE "done"

\* manifest_path = _write_manifest(bundle.manifest_text, target=...)
WriteManifest ==
    /\ wf_pc = "start"
    /\ wf_file' = TRUE
    /\ wf_pc' = "dry-run"
    /\ UNCHANGED <<wf_op, wf_debug, wf_emit_crds, wf_bundle, wf_i, wf_caller,
                   wf_sim_node, wf_remaining, wf_pod_name, wf_pods,
                   wf_lingering, wf_error, wf_dry, wf_real, wf_polled,
                   wf_ready, wf_late, wf_expired, wf_exec, wf_echo,
                   wf_present, wf_output, wf_exec_error,
                   notWorkflow>>

\* _run_etc((etc, apply | delete, -f, manifest, --dry-run)); on CommandError
\* the finally clause runs and the error propagates.
DryRun ==
    /\ wf_pc = "dry-run"
    /\ \E result \in EtcResults :
        LET r == _run_etc(result, wf_debug) IN
        /\ wf_dry' = IF result.returncode = 0 THEN "ok" ELSE "failed"
        /\ wf_output' = IF r.raised THEN wf_output
                        ELSE DictSet(wf_output, EtcCommand(wf_op, TRUE), r.output)
        /\ wf_echo' = IF r.echoed THEN wf_echo \cup {EtcCommand(wf_op, TRUE)} ELSE wf_echo
        /\ IF r.raised
           THEN /\ wf_error' = CommandError(EtcCommand(wf_op, TRUE))
                /\ wf_file' = AfterUnlink
                /\ wf_pc' = "failed"
           ELSE /\ wf_error' = wf_error
                /\ wf_file' = wf_file
                /\ wf_pc' = "real-run"
    /\ UNCHANGED <<wf_op, wf_debug, wf_emit_crds, wf_bundle, wf_i, wf_caller,
                   wf_sim_node, wf_remaining, wf_pod_name, wf_pods,
                   wf_lingering, wf_real, wf_polled, wf_ready, wf_late,
                   wf_expired, wf_exec, wf_present, wf_exec_error,
                   notWorkflow>>

\* _run_etc((etc, apply | delete, -f, manifest)), then the finally clause.
RealRun ==
    /\ wf_pc = "real-run"
    /\ \E result \in EtcResults :
        LET r == _run_etc(result, wf_debug) IN
        /\ wf_real' = IF result.returncode = 0 THEN "ok" ELSE "failed"
        /\ wf_output' = IF r.raised THEN wf_output
                        ELSE DictSet(wf_output, EtcCommand(wf_op, FALSE), r.output)
        /\ wf_echo' = IF r.echoed THEN wf_echo \cup {EtcCommand(wf_op, FALSE)} ELSE wf_echo
        /\ wf_file' = AfterUnlink
        /\ IF r.raised
           THEN /\ wf_error' = CommandError(EtcCommand(wf_op, FALSE))
                /\ wf_pc' = "failed"
                /\ wf_i' = wf_i
           ELSE /\ wf_error' = wf_error
                /\ wf_pc' = AfterRealRun
                /\ wf_i' = 1
    /\ UNCHANGED <<wf_op, wf_debug, wf_emit_crds, wf_bundle, wf_caller,
                   wf_sim_node, wf_remaining, wf_pod_name, wf_pods,
                   wf_lingering, wf_dry, wf_polled, wf_ready, wf_late,
                   wf_expired, wf_exec, wf_present, wf_exec_error,
                   notWorkflow>>

\* _collect_sim_pods calls _wait_for_sim_pod for the next sim node:
\* deadline = time.time() + 180, pod_name = "".
BeginWait ==
    /\ wf_pc = "collect"
    /\ wf_i <= Len(wf_bundle.sim_nodes)
    /\ wf_caller' = "collect"
    /\ wf_sim_node' = wf_bundle.sim_nodes[wf_i]
    /\ wf_remaining' = POD_WAIT_SECONDS
    /\ wf_pod_name' = ""
    /\ wf_pc' = "wait-loop"
    /\ UNCHANGED <<wf_op, wf_debug, wf_emit_crds, wf_bundle, wf_file, wf_i,
                   wf_pods, wf_lingering, wf_error, wf_dry, wf_real,
                   wf_polled, wf_ready, wf_late, wf_expired, wf_exec,
                   wf_echo, wf_present, wf_output, wf_exec_error,
                   notWorkflow>>

\* while time.time() < deadline: ... ; raise RuntimeError(Timed out ...)
LoopCheck ==
    /\ wf_pc = "wait-loop"
    /\ IF BeforeDeadline(wf_remaining)
       THEN /\ wf_pc' = "get-pod"
            /\ UNCHANGED <<wf_error, wf_expired>>
       ELSE /\ wf_expired' = wf_expired \cup {wf_sim_node}
            /\ wf_error' = TimedOut(wf_sim_node)
            /\ wf_pc' = "failed"
    /\ UNCHANGED <<wf_op, wf_debug, wf_emit_crds, wf_bundle, wf_file, wf_i,
                   wf_caller, wf_sim_node, wf_remaining, wf_pod_name,
                   wf_pods, wf_lingering, wf_dry, wf_real, wf_polled,
                   wf_ready, wf_late, wf_exec, wf_echo,
                   wf_present, wf_output, wf_exec_error,
                   notWorkflow>>

\* kubectl get pod -l cx-pod-name=<sim_node>; no pod: sleep 2 and loop.
GetPod ==
    /\ wf_pc = "get-pod"
    /\ \E result \in GetPodResults(wf_sim_node), seconds \in CommandSeconds :
        LET r == run_command(result)
            pod_name == IF r.raised THEN "" ELSE r.output
            slept == IF pod_name # "" THEN seconds ELSE seconds + SLEEP_SECONDS
        IN /\ wf_polled' = wf_polled \cup {wf_sim_node}
           /\ wf_pod_name' = pod_name
           /\ wf_remaining' = Elapse(wf_remaining, slept)
           /\ wf_late' = IF wf_remaining <= slept
                         THEN wf_late \cup {wf_sim_node} ELSE wf_late
           /\ wf_pc' = IF pod_name # "" THEN "wait-ready" ELSE "wait-loop"
    /\ UNCHANGED <<wf_op, wf_debug, wf_emit_crds, wf_bundle, wf_file, wf_i,
                   wf_caller, wf_sim_node, wf_pods, wf_lingering, wf_error,
                   wf_dry, wf_real, wf_ready, wf_expired, wf_exec, wf_echo,
                   wf_present, wf_output, wf_exec_error,
                   notWorkflow>>

\* kubectl wait pod <pod_name> --for=condition=Ready --timeout=120s; on
\* CommandError pod_name is reset, sleep 2 and loop; otherwise the pod is
\* returned to the caller.
WaitPod ==
    /\ wf_pc = "wait-ready"
    /\ \E result \in WaitResults, seconds \in WaitSeconds :
        LET r == run_command(result)
            pod_name == PodAfterWait(wf_pod_name, r.raised)
        IN /\ wf_ready' = IF result.returncode = 0
                          THEN wf_ready \cup {wf_sim_node} ELSE wf_ready
           /\ IF pod_name = ""
              THEN /\ wf_pod_name' = ""
                   /\ wf_remaining' = Elapse(wf_remaining, seconds + SLEEP_SECONDS)
                   /\ wf_late' = IF wf_remaining <= seconds + SLEEP_SECONDS
                                 THEN wf_late \cup {wf_sim_node} ELSE wf_late
                   /\ wf_pc' = "wait-loop"
                   /\ UNCHANGED <<wf_pods, wf_i>>
              ELSE /\ wf_late' = IF wf_remaining < seconds
                                 THEN wf_late \cup {wf_sim_node} ELSE wf_late
                   /\ wf_pods' = DictSet(wf_pods, wf_sim_node, pod_name)
                   /\ IF wf_caller = "collect"
                      THEN /\ wf_pod_name' = ""
                           /\ wf_remaining' = 0
                           /\ wf_i' = wf_i + 1
                           /\ wf_pc' = "collect"
                      ELSE /\ wf_pod_name' = pod_name
                           /\ wf_remaining' = CONFIG_RETRY_SECONDS
                           /\ wf_i' = wf_i
                           /\ wf_pc' = "exec"
    /\ UNCHANGED <<wf_op, wf_debug, wf_emit_crds, wf_bundle, wf_file,
                   wf_caller, wf_sim_node, wf_lingering, wf_error, wf_dry,
                   wf_real, wf_polled, wf_expired, wf_exec, wf_echo,
                   wf_present, wf_output, wf_exec_error,
                   notWorkflow>>

\* _collect_sim_pods returns pod_lookup; apply_simulation goes on to the
\* configuration pass, if there is anything to configure.
EndCollect ==
    /\ wf_pc = "collect"
    /\ wf_i > Len(wf_bundle.sim_nodes)
    /\ wf_i' = 1
    /\ wf_pc' = IF wf_bundle.node_configs # <<>> THEN "config" ELSE AfterConfigure
    /\ UNCHANGED <<wf_op, wf_debug, wf_emit_crds, wf_bundle, wf_file,
                   wf_caller, wf_sim_node, wf_remaining, wf_pod_name,
                   wf_pods, wf_lingering, wf_error, wf_dry, wf_real,
                   wf_polled, wf_ready, wf_late, wf_expired, wf_exec,
                   wf_echo, wf_present, wf_output, wf_exec_error,
                   notWorkflow>>

\* _configure_linux_interfaces, next config: the pod is looked up (and waited
\* for when missing), the command built, deadline = time.time() + 180.
BeginConfig ==
    /\ wf_pc = "config"
    /\ wf_i <= Len(wf_bundle.node_configs)
    /\ LET name == wf_bundle.node_configs[wf_i].name
           pod_name == IF name \in DOMAIN wf_pods THEN wf_pods[name] ELSE ""
       IN /\ wf_sim_node' = name
          /\ wf_pod_name' = pod_name
          /\ IF pod_name = ""
             THEN /\ wf_caller' = "config"
                  /\ wf_remaining' = POD_WAIT_SECONDS
                  /\ wf_pc' = "wait-loop"
             ELSE /\ wf_caller' = wf_caller
                  /\ wf_remaining' = CONFIG_RETRY_SECONDS
                  /\ wf_pc' = "exec"
    /\ UNCHANGED <<wf_op, wf_debug, wf_emit_crds, wf_bundle, wf_file, wf_i,
                   wf_pods, wf_lingering, wf_error, wf_dry, wf_real,
                   wf_polled, wf_ready, wf_late, wf_expired, wf_exec,
                   wf_echo, wf_present, wf_output, wf_exec_error,
                   notWorkflow>>

\* kubectl exec <pod> -c <name> -- sh -c <command>; a device-not-visible
\* failure before the deadline sleeps 2 and retries, any other is raised.
Exec ==
    /\ wf_pc = "exec"
    /\ \E result \in ExecResults, seconds \in CommandSeconds :
        LET r == run_command(result) IN
        /\ wf_exec' = wf_exec \cup {wf_sim_node}
        /\ wf_exec_error' = IF r.raised THEN result.stderr ELSE ""
        /\ IF ~r.raised
           THEN /\ wf_remaining' = 0
                /\ wf_error' = wf_error
                /\ wf_i' = IF wf_debug THEN wf_i ELSE wf_i + 1
                /\ wf_pc' = IF wf_debug THEN "show" ELSE "config"
           ELSE IF /\ DeviceNotVisible(result.stderr)
                   /\ BeforeDeadline(Elapse(wf_remaining, seconds))
           THEN /\ wf_remaining' = Elapse(wf_remaining, seconds + SLEEP_SECONDS)
                /\ wf_error' = wf_error
                /\ wf_i' = wf_i
                /\ wf_pc' = "exec"
           ELSE /\ wf_remaining' = Elapse(wf_remaining, seconds)
                /\ wf_error' = CommandError("kubectl exec sh -c")
                /\ wf_i' = wf_i
                /\ wf_pc' = "failed"
    /\ UNCHANGED <<wf_op, wf_debug, wf_emit_crds, wf_bundle, wf_file,
                   wf_caller, wf_sim_node, wf_pod_name, wf_pods,
                   wf_lingering, wf_dry, wf_real, wf_polled, wf_ready,
                   wf_late, wf_expired, wf_echo, wf_present,
                   wf_output, notWorkflow>>

\* if debug: kubectl exec <pod> -- ip addr show <interface>, echoed.
ShowState ==
    /\ wf_pc = "show"
    /\ \E result \in GetResults :
        LET r == run_command(result) IN
        IF r.raised
        THEN /\ wf_error' = CommandError("kubectl exec ip addr show")
             /\ wf_pc' = "failed"
             /\ UNCHANGED <<wf_i, wf_echo>>
        ELSE /\ wf_echo' = wf_echo \cup {"kubectl exec ip addr show"}
             /\ wf_error' = wf_error
             /\ wf_i' = wf_i + 1
             /\ wf_pc' = "config"
    /\ UNCHANGED <<wf_op, wf_debug, wf_emit_crds, wf_bundle, wf_file,
                   wf_caller, wf_sim_node, wf_remaining, wf_pod_name,
                   wf_pods, wf_lingering, wf_dry, wf_real, wf_polled,
                   wf_ready, wf_late, wf_expired, wf_exec,
                   wf_present, wf_output, wf_exec_error,
                   notWorkflow>>

\* _configure_linux_interfaces returns.
EndConfig ==
    /\ wf_pc = "config"
    /\ wf_i > Len(wf_bundle.node_configs)
    /\ wf_pc' = AfterConfigure
    /\ UNCHANGED <<wf_op, wf_debug, wf_emit_crds, wf_bundle, wf_file, wf_i,
                   wf_caller, wf_sim_node, wf_remaining, wf_pod_name,
                   wf_pods, wf_lingering, wf_error, wf_dry, wf_real,
                   wf_polled, wf_ready, wf_late, wf_expired, wf_exec,
                   wf_echo, wf_present, wf_output, wf_exec_error,
                   notWorkflow>>

\* if debug: _dump_simulation_state, whose command failures are only echoed.
DumpState ==
    /\ wf_pc = "dump"
    /\ \E simnodes \in GetResults, simlinks \in GetResults :
        wf_echo' = wf_echo \cup {"kubectl get simnodes", "kubectl get simlinks"}
    /\ wf_i' = 1
    /\ wf_pc' = IF wf_op = "apply" THEN "done" ELSE "verify"
    /\ UNCHANGED <<wf_op, wf_debug, wf_emit_crds, wf_bundle, wf_file,
                   wf_caller, wf_sim_node, wf_remaining, wf_pod_name,
                   wf_pods, wf_lingering, wf_error, wf_dry, wf_real,
                   wf_polled, wf_ready, wf_late, wf_expired, wf_exec,
                   wf_present, wf_output, wf_exec_error,
                   notWorkflow>>

\* _verify_cleanup, next summary: kubectl get <resource> <name>; the
\* resource is lingering when the command succeeds.
VerifyOne ==
    /\ wf_pc = "verify"
    /\ wf_i <= Len(wf_bundle.summaries)
    /\ \E result \in GetResults :
        LET r == run_command(result) IN
        /\ wf_lingering' = AfterQuery(wf_lingering, wf_bundle.summaries[wf_i], r.raised)
        /\ wf_present' = Append(wf_present, result.returncode = 0)
    /\ wf_i' = wf_i + 1
    /\ UNCHANGED <<wf_pc, wf_op, wf_debug, wf_emit_crds, wf_bundle, wf_file,
                   wf_caller, wf_sim_node, wf_remaining, wf_pod_name,
                   wf_pods, wf_error, wf_dry, wf_real, wf_polled, wf_ready,
                   wf_late, wf_expired, wf_exec, wf_echo,
                   wf_output, wf_exec_error,
                   notWorkflow>>

\* _verify_cleanup warns about the lingering resources and returns.
EndVerify ==
    /\ wf_pc = "verify"
    /\ wf_i > Len(wf_bundle.summaries)
    /\ wf_echo' = IF wf_lingering # <<>> THEN wf_echo \cup {"Warning: lingering"} ELSE wf_echo
    /\ wf_pc' = "done"
    /\ UNCHANGED <<wf_op, wf_debug, wf_emit_crds, wf_bundle, wf_file, wf_i,
                   wf_caller, wf_sim_node, wf_remaining, wf_pod_name,
                   wf_pods, wf_lingering, wf_error, wf_dry, wf_real,
                   wf_polled, wf_ready, wf_late, wf_expired, wf_exec,
                   wf_present, wf_output, wf_exec_error,
                   notWorkflow>>

InitWorkflow ==
    WorkflowInit /\ SelOff /\ IpOff /\ AutoOff /\ MergeOff /\ ParseOff /\ PodOff

NextWorkflow ==
    \/ WriteManifest
    \/ DryRun
    \/ RealRun
    \/ BeginWait
    \/ LoopCheck
    \/ GetPod
    \/ WaitPod
    \/ EndCollect
    \/ BeginConfig
    \/ Exec
    \/ ShowState
    \/ EndConfig
    \/ DumpState
    \/ VerifyOne
    \/ EndVerify

SpecWorkflow == InitWorkflow /\ [][NextWorkflow]_vars

\* C9: in apply_simulation and remove_simulation the real command (etc apply,
\* etc delete) is invoked only after the dry-run of the same manifest has
\* succeeded; if the dry-run fails the real command is never invoked, no pod
\* is awaited or configured, and the command's error propagates.
C9_RealOnlyAfterDryRun ==
    /\ wf_real # "none" => wf_dry = "ok"
    /\ wf_pc \in {"dry-run", "real-run"} => wf_file
    /\ wf_dry = "failed" =>
          /\ wf_real = "none"
          /\ wf_polled = {}
          /\ wf_exec = {}
          /\ wf_pc = "failed"
          /\ wf_error = CommandError(EtcCommand(wf_op, TRUE))

\* remove_simulation has run etc delete after a successful dry-run, and is
\* verifying the cleanup.
C9_Witness ==
    /\ wf_op = "remove"
    /\ wf_dry = "ok"
    /\ wf_real = "ok"
    /\ wf_pc = "verify"

AllPodsReady ==
    \A n \in Range(wf_bundle.sim_nodes) :
        /\ n \in wf_polled
        /\ n \in wf_ready
        /\ n \in DOMAIN wf_pods /\ wf_pods[n] # ""

\* C10 as stated: configuration is pushed only after every rendered sim node
\* has a pod found by its selector and observed Ready; if the deadline of a
\* sim node passes first, apply fails with a timeout error naming that sim
\* node and no in-pod configuration command is ever issued.
C10_AsStated ==
    /\ wf_exec # {} => AllPodsReady
    /\ \A n \in wf_late :
          /\ wf_exec = {}
          /\ n \notin DOMAIN wf_pods
          /\ wf_pc \in {"done", "failed"} => wf_error = TimedOut(n)

\* C10 (amended): configuration is pushed only after every rendered sim node
\* has a pod found by its selector and observed Ready; a poll starts only
\* before the deadline, and if the loop's check, made before each poll, finds
\* the deadline of a sim node passed, apply fails with a timeout error naming
\* that sim node and no in-pod configuration command is ever issued (a
\* readiness wait begun before the deadline is accepted when it succeeds
\* after it).
C10_ConfiguredOnlyWhenAllReady ==
    /\ wf_exec # {} => AllPodsReady
    /\ wf_pc = "get-pod" => wf_remaining > 0
    /\ \A n \in wf_expired :
          /\ wf_pc = "failed"
          /\ wf_error = TimedOut(n)
          /\ n \notin wf_ready
          /\ wf_exec = {}
    /\ wf_error.type = "RuntimeError" => wf_error.arg \in wf_expired

\* Two sim nodes: the pod of the first was observed Ready only after its
\* deadline had passed, both pods were accepted and configuration was pushed.
C10_Witness ==
    /\ wf_op = "apply"
    /\ Len(wf_bundle.sim_nodes) = 2
    /\ wf_bundle.sim_nodes[1] \in wf_late
    /\ AllPodsReady
    /\ wf_exec # {}
    /\ wf_pc = "done"

\* The summaries whose re-query succeeded, in rendering order.
PresentSummaries ==
    LET found == SelectSeq([i \in 1..Len(wf_present) |-> i],
                           LAMBDA i : wf_present[i])
    IN [k \in 1..Len(found) |-> wf_bundle.summaries[found[k]]]

\* C11: after the real delete has succeeded remove_simulation re-queries every
\* rendered (kind, name) and always completes without an error, whatever
\* subset of the resources is still present; the resources listed in the
\* warning are exactly those whose re-query succeeded, and the warning is
\* issued exactly when there is one.
C11_LingeringOnlyWarns ==
    (wf_op = "remove" /\ wf_real = "ok") =>
        /\ wf_pc \in {"dump", "verify", "done"}
        /\ wf_error = NoFailure
        /\ wf_lingering = PresentSummaries
        /\ wf_pc = "verify" => Len(wf_present) = wf_i - 1
        /\ wf_pc = "done" =>
              /\ Len(wf_present) = Len(wf_bundle.summaries)
              /\ ("Warning: lingering" \in wf_echo) <=> (wf_lingering # <<>>)

\* remove_simulation has ended normally with a warning: the first rendered
\* resource was still present, the last one was gone.
C11_Witness ==
    /\ wf_op = "remove"
    /\ wf_pc = "done"
    /\ wf_error = NoFailure
    /\ Len(wf_present) = Len(wf_bundle.summaries)
    /\ wf_present[1]
    /\ ~wf_present[Len(wf_present)]
    /\ wf_lingering # <<>>
    /\ "Warning: lingering" \in wf_echo

\* The run is past the try block of the dry-run and the real command.
PastCommands == wf_pc \notin {"start", "dry-run", "real-run"}

\* C12: without a manifest path the scratch manifest written by
\* apply_simulation or remove_simulation is gone once the dry-run and the real
\* command are over, whether they succeeded or failed; with a caller's path
\* (apply_simulation only) the manifest is still on disk, on success and on
\* failure.
C12_ScratchManifestRemoved ==
    /\ wf_op = "remove" => ~wf_emit_crds
    /\ wf_pc \in {"dry-run", "real-run"} => wf_file
    /\ PastCommands => (wf_file <=> wf_emit_crds)

\* A run without a manifest path whose real command failed: the scratch file
\* was written and is gone.
C12_Witness ==
    /\ ~wf_emit_crds
    /\ wf_dry = "ok"
    /\ wf_real = "failed"
    /\ wf_pc = "failed"
    /\ ~wf_file

----------------------------------------------------------------------------
\* The auto-generated plan handed to parse_simulation_spec and _render_bundle
\* (cli: plan.raw_spec is passed as raw_spec to apply_simulation).

\* f"{host}/{prefixlen}" with host in dotted-quad notation.
AddressText(a) ==
    Decimal(a.addr \div 16777216) \o <<".">>
    \o Decimal((a.addr \div 65536) % 256) \o <<".">>
    \o Decimal((a.addr \div 256) % 256) \o <<".">>
    \o Decimal(a.addr % 256) \o <<"/">> \o Decimal(a.prefixlen)

\* A node record of raw_spec["simNodes"] as the mapping the validator reads:
\* the vlan and ipAddress keys exist only when they were set.
NodeMapping(node) ==
    LET keys == {"name", "image", "type", "interface"}
                \cup (IF IsNone(node.vlan) THEN {} ELSE {"vlan"})
                \cup (IF IsNone(node.ipAddress) THEN {} ELSE {"ipAddress"})
    IN Mapping([k \in keys |->
                   CASE k = "name" -> Str(node.name)
                     [] k = "image" -> Str(node.image)
                     [] k = "type" -> Str(node.type)
                     [] k = "interface" -> Str(node.interface)
                     [] k = "vlan" -> Str(node.vlan[1])
                     [] OTHER -> Str(AddressText(node.ipAddress[1]))])

\* An entry of raw_spec["topology"]: the vlan key exists when vlan_id is set.
TopologyMapping(entry) ==
    LET keys == {"node", "interface", "simNode", "simNodeInterface"}
                \cup (IF Given(entry.vlan) THEN {"vlan"} ELSE {})
    IN Mapping([k \in keys |->
                   CASE k = "node" -> Str(entry.node)
                     [] k = "interface" -> Str(entry.interface)
                     [] k = "simNode" -> Str(entry.simNode)
                     [] k = "simNodeInterface" -> Str(entry.simNodeInterface)
                     [] OTHER -> Str(entry.vlan[1])])

RawSpecOf(plan) ==
    [wrapper |-> "none",
     simNodes |-> ListValue([i \in 1..Len(plan.raw_spec.simNodes) |->
                                NodeMapping(plan.raw_spec.simNodes[i])]),
     topology |-> ListValue([i \in 1..Len(plan.raw_spec.topology) |->
                                TopologyMapping(plan.raw_spec.topology[i])])]

\* The validated spec of the plan just returned, and its bundle.
PlanSpec == parse_simulation_spec(RawSpecOf(au_plan[1]))

PlanBundle == _render_bundle(PlanSpec.spec[1])

NamesOfKind(bundle, kind) ==
    SelectSeq([i \in 1..Len(bundle.summaries) |-> bundle.summaries[i]],
              LAMBDA x : x.kind = kind)

PairwiseDistinct(seq) ==
    \A i, j \in 1..Len(seq) : i # j => seq[i] # seq[j]

UniquePairs(attachments) ==
    {<<a.fabric_node, a.fabric_interface, a.sim_node, a.sim_interface>> :
        a \in Range(attachments)}

\* C13: in the bundle rendered from the validated spec of an auto-generated
\* plan the SimLink names are pairwise distinct, the TopoLink names are
\* pairwise distinct, and there are as many TopoLinks as distinct (fabric
\* node, fabric interface, sim node, sim interface) tuples among the
\* attachments.
C13_LinkNamesUnique ==
    (au_pc = "done" /\ PlanSpec.error = NoError) =>
        /\ PairwiseDistinct(NamesOfKind(PlanBundle, "SimLink"))
        /\ PairwiseDistinct(NamesOfKind(PlanBundle, "TopoLink"))
        /\ Len(NamesOfKind(PlanBundle, "TopoLink"))
              = Cardinality(UniquePairs(PlanSpec.spec[1].attachments))

----------------------------------------------------------------------------
\* The spec just validated, rendered.

ParsedSpec == [nodes |-> ps_nodes, attachments |-> ps_attachments]

ValidatedTriples ==
    {<<a.sim_node, a.sim_interface, a.vlan>> : a \in Range(ps_attachments)}

RenderedTriples ==
    {<<c.name, c.interface, c.vlan>> :
        c \in Range(_render_bundle(ParsedSpec).node_configs)}

EveryNodeHasAddress ==
    \A i \in 1..Len(ps_nodes) : Given(NodeIpAddress(ps_nodes[i][2]))

\* C14: for every spec the validator accepts, the (node name, sim interface,
\* VLAN) triples of the validated attachments are the triples of the rendered
\* bundle's interface configurations: rendering loses, adds and changes none.
\* Stated for the specs whose nodes all have an address, the only ones for
\* which an interface configuration is rendered at all.
C14_RoundTripKeepsTriples ==
    (ps_pc = "done" /\ EveryNodeHasAddress) => ValidatedTriples = RenderedTriples

----------------------------------------------------------------------------
\* Dotted-quad notation of an address.
DottedQuad(addr) ==
    Decimal(addr \div 16777216) \o <<".">>
    \o Decimal((addr \div 65536) % 256) \o <<".">>
    \o Decimal((addr \div 256) % 256) \o <<".">>
    \o Decimal(addr % 256)

\* The gateways of the pools a given address may have come from.
GatewaysOf(address) ==
    {DottedQuad(pool.gateway) :
        pool \in {q \in Range(au_col.pools) :
                     /\ q.prefixlen = address.prefixlen
                     /\ q.network = NetworkOf(address.addr, address.prefixlen)}}

HasGateway(d, gateways) ==
    "gateway" \in DOMAIN d /\ \E g \in gateways : d["gateway"] \in {g, Str(g)}

DeviceOf(config) ==
    IF Given(config.vlan) THEN config.interface \o <<".">> \o config.vlan[1]
    ELSE config.interface

RouteSteps(config) ==
    {x \in Range(command_str(config)) : x.op = "ip route replace default via dev"}

\* C15: when a sim node's address was allocated from an IRB pool, its node
\* record and its NodeInterfaceConfig carry the pool's gateway, and the in-pod
\* command has the step "ip route replace default via <gateway> dev
\* <configured interface>" exactly when the NodeInterfaceConfig has a gateway.
C15_GatewayPropagated ==
    (au_pc = "done" /\ PlanSpec.error = NoError) =>
        /\ \A i \in 1..Len(au_plan[1].raw_spec.simNodes) :
              LET node == au_plan[1].raw_spec.simNodes[i] IN
              ~IsNone(node.ipAddress) =>
                  HasGateway(NodeMapping(node).d, GatewaysOf(node.ipAddress[1]))
        /\ \A c \in Range(PlanBundle.node_configs) :
              /\ \E i \in 1..Len(au_plan[1].raw_spec.simNodes) :
                    LET node == au_plan[1].raw_spec.simNodes[i] IN
                    /\ node.name = c.name
                    /\ ~IsNone(node.ipAddress)
                    /\ HasGateway(c, GatewaysOf(node.ipAddress[1]))
              /\ RouteSteps(c) # {} <=> "gateway" \in DOMAIN c
              /\ \A x \in RouteSteps(c) : x.dev = DeviceOf(c) /\ x.arg = c.gateway

----------------------------------------------------------------------------
ApplyCommands == {EtcCommand("apply", TRUE), EtcCommand("apply", FALSE)}

QuietApply == wf_op = "apply" /\ ~wf_debug

\* C16 as stated: in an apply run with debug disabled a successful etc apply
\* (dry-run or real) never causes its command output to be echoed.
C16_AsStated ==
    QuietApply => \A c \in ApplyCommands : c \notin wf_echo

\* C16 (amended): in an apply run with debug disabled the output of a
\* successful etc apply (dry-run or real) is echoed exactly when it is not
\* empty, and no other command's output is echoed.
C16_QuietApplyEchoesOnlyOutput ==
    QuietApply =>
        /\ wf_echo \subseteq ApplyCommands
        /\ DOMAIN wf_output \subseteq ApplyCommands
        /\ \A c \in ApplyCommands :
              c \in wf_echo <=> (c \in DOMAIN wf_output /\ wf_output[c] # "")

\* An apply run with debug disabled has ended after configuring a pod: the
\* dry-run printed nothing and was not echoed, the real run's output was.
C16_Witness ==
    /\ QuietApply
    /\ wf_pc = "done"
    /\ wf_exec # {}
    /\ DOMAIN wf_output = ApplyCommands
    /\ wf_output[EtcCommand("apply", TRUE)] = ""
    /\ wf_echo = {EtcCommand("apply", FALSE)}

----------------------------------------------------------------------------
\* The raw attachments in processing order: the list being built during the
\* collection, and the list that was handed to the merge afterwards.
RawAttachments ==
    IF au_pc \in {"collected", "renamed", "done"} THEN au_raw ELSE au_col.attachments

\* The attachments of one device name that carry a value for the field, in
\* processing order: its writers.
WritersOf(sim_name, field) ==
    LET Writes(att) == att.sim_name = sim_name /\ ~IsNone(att[field]) IN
    SelectSeq(RawAttachments, Writes)

FirstWritten(sim_name, field) ==
    LET writers == WritersOf(sim_name, field) IN
    IF writers = <<>> THEN None ELSE writers[1][field]

\* C17: at every point of the collection and after the merge, the vlan and
\* ipAddress fields of every sim-node record hold the value of the first
\* attachment of that device name, in processing order, that had one; no
\* later attachment changes them.
C17_FirstWriterWins ==
    \A sim_name \in DOMAIN au_col.sim_nodes :
        /\ au_col.sim_nodes[sim_name].vlan = FirstWritten(sim_name, "vlan_id")
        /\ au_col.sim_nodes[sim_name].ipAddress = FirstWritten(sim_name, "ip_address")

\* The merge has run on a device whose attachments brought two different
\* VLAN ids and two different addresses: the record holds the first of each.
C17_Witness ==
    /\ au_pc = "collected"
    /\ \E sim_name \in DOMAIN au_col.sim_nodes :
          LET vlans == WritersOf(sim_name, "vlan_id")
              addresses == WritersOf(sim_name, "ip_address")
          IN /\ Len(vlans) >= 2
             /\ vlans[2].vlan_id # vlans[1].vlan_id
             /\ Len(addresses) >= 2
             /\ addresses[2].ip_address # addresses[1].ip_address
             /\ au_col.sim_nodes[sim_name].vlan = vlans[1].vlan_id
             /\ au_col.sim_nodes[sim_name].ipAddress = addresses[1].ip_address

----------------------------------------------------------------------------
\* The (VLAN label, interface resource name) pair of a raw attachment.
PairOf(att) == <<att.vlan_name, att.interface_name>>

\* The VLAN definitions of the run in processing order, and the positions of
\* those that select an entry of the interfaces dict under a VLAN label.
Definitions == AllDefinitions(au_vns, 1)

MatchesUnder(vlan_name, item) ==
    LET definitions == Definitions IN
    {k \in SelectingDefinitions(item) : definitions[k].vlan_name = vlan_name}

FirstMatch(vlan_name, item) ==
    LET matches == MatchesUnder(vlan_name, item) IN
    CHOOSE k \in matches : \A other \in matches : k <= other

\* The raw attachments that the definition at position k produced for an
\* entry of the interfaces dict.
CreatedBy(k, item) ==
    LET definition == Definitions[k] IN
    {i \in 1..Len(au_raw) :
        /\ PairOf(au_raw[i]) = <<definition.vlan_name, item[1]>>
        /\ au_raw[i].virtual_network = definition.virtual_network
        /\ au_raw[i].vlan_id = definition.vlan_id}

PairsUnique ==
    \A i, j \in 1..Len(RawAttachments) :
        i # j => PairOf(RawAttachments[i]) # PairOf(RawAttachments[j])

Collected == au_pc \in {"collected", "renamed", "done"}

\* C18 as stated: no two raw attachments share a (VLAN label, interface
\* resource name) pair; for every pair matched by some VLAN definition the
\* first matching definition, in processing order, created the attachment,
\* and the later matches were dropped without error.
C18_AsStated ==
    /\ PairsUnique
    /\ Collected =>
          /\ au_error = ""
          /\ \A item \in Range(au_ifaces) : \A k \in SelectingDefinitions(item) :
                LET vlan_name == Definitions[k].vlan_name
                    created == CreatedBy(FirstMatch(vlan_name, item), item)
                IN /\ Cardinality(created) = 1
                   /\ \A i \in 1..Len(au_raw) :
                         PairOf(au_raw[i]) = <<vlan_name, item[1]>>
                         => i \in created

\* C18 (amended): no two raw attachments share a (VLAN label, interface
\* resource name) pair; for every pair matched by some VLAN definition the
\* first matching definition, in processing order, created the attachment
\* when the interface's first member names a fabric node and a port, and
\* there is no attachment for the pair otherwise; the later matches were
\* dropped without error.
C18_FirstMatchCreatesAttachment ==
    /\ PairsUnique
    /\ Collected =>
          /\ au_error = ""
          /\ \A item \in Range(au_ifaces) : \A k \in SelectingDefinitions(item) :
                LET vlan_name == Definitions[k].vlan_name
                    created == CreatedBy(FirstMatch(vlan_name, item), item)
                IN /\ Cardinality(created) =
                         IF EndpointMissing(item[2]) THEN 0 ELSE 1
                   /\ \A i \in 1..Len(au_raw) :
                         PairOf(au_raw[i]) = <<vlan_name, item[1]>>
                         => i \in created

\* Two definitions of different VirtualNetworks share a VLAN label and both
\* select an interface that has an endpoint: the collection kept the first
\* one's attachment and nothing of the second.
C18_Witness ==
    /\ Collected
    /\ \E item \in Range(au_ifaces) : \E k1, k2 \in SelectingDefinitions(item) :
          /\ k1 < k2
          /\ Definitions[k1].vlan_name = Definitions[k2].vlan_name
          /\ Definitions[k1].vlan_id # Definitions[k2].vlan_id
          /\ ~EndpointMissing(item[2])
          /\ Cardinality(CreatedBy(k1, item)) = 1
          /\ CreatedBy(k2, item) = {}

----------------------------------------------------------------------------
\* The primary _merge_attachments chooses for an interface resource when it
\* is handed the attachments in the given order.
PrimaryFor(attachments, interface_name) ==
    LET merged == _merge_attachments(SeededNodes(attachments, 1, EmptyDict),
                                     attachments).attachments
    IN {p \in Range(merged) : p.interface_name = interface_name}

\* C19: the primary attachment _merge_attachments chooses for a fabric
\* interface is the same for every permutation of the attachments handed in;
\* it never depends on insertion order.
C19_PrimaryIndependentOfOrder ==
    mg_pc = "done" =>
        \A f \in OrderingsOf(Len(mg_atts)) :
            \A a \in Range(mg_atts) :
                PrimaryFor(Permute(mg_atts, f), a.interface_name)
                    = {p \in Range(mg_result[1].attachments) :
                          p.interface_name = a.interface_name}

----------------------------------------------------------------------------
\* What _rename_servers was handed (the merged attachments and the node
\* records) and what it returned.
Renamed == au_pc \in {"renamed", "done"}

PriorNames == {a.sim_name : a \in Range(au_col.attachments)}

\* The attachment of a prior device name that comes first in the order
\* sorted by (fabric node, fabric port, virtual network, VLAN label,
\* interface name), and the number of prior names that appear before it.
FirstOf(old_name) ==
    CHOOSE a \in Range(au_col.attachments) :
        /\ a.sim_name = old_name
        /\ \A b \in Range(au_col.attachments) :
              b.sim_name = old_name => ~TupleLess(RenameKey(b), RenameKey(a), 1)

AppearBefore(old_name) ==
    {o \in PriorNames :
        TupleLess(RenameKey(FirstOf(o)), RenameKey(FirstOf(old_name)), 1)}

NewNameOf(old_name) == ServerName(Cardinality(AppearBefore(old_name)) + 1)

ServerNames(n) == {ServerName(index) : index \in 1..n}

\* C20: _rename_servers maps the N distinct prior device names one-to-one
\* onto exactly server1..serverN, numbered by first appearance in the order
\* sorted by (fabric node, fabric port, virtual network, VLAN label, interface
\* name); every attachment is kept with the new name of its prior name, so
\* attachments that shared a prior name share the new one; and the renamed
\* node records are keyed server1..serverN, each with its key as name field
\* and the other fields of the prior record.
C20_RenameIsBijectionInSortedOrder ==
    Renamed =>
        LET r == au_renamed[1]
            n == Cardinality(PriorNames)
        IN /\ DOMAIN r.name_map = PriorNames
           /\ {r.name_map[o] : o \in PriorNames} = ServerNames(n)
           /\ \A o \in PriorNames : r.name_map[o] = NewNameOf(o)
           /\ Len(r.attachments) = Len(au_col.attachments)
           /\ \A a \in Range(au_col.attachments) :
                 [a EXCEPT !.sim_name = NewNameOf(a.sim_name)] \in Range(r.attachments)
           /\ DOMAIN r.sim_nodes = ServerNames(n)
           /\ \A key \in DOMAIN r.sim_nodes : r.sim_nodes[key].name = key
           /\ \A o \in PriorNames :
                 r.sim_nodes[NewNameOf(o)] =
                     [au_col.sim_nodes[o] EXCEPT !.name = NewNameOf(o)]

\* The attachments of two prior device names were renamed, and the device
\* collected first is server2 because its attachment sorts behind the other
\* device's.
C20_Witness ==
    /\ Renamed
    /\ Cardinality(PriorNames) = 2
    /\ au_renamed[1].name_map[au_col.attachments[1].sim_name] = ServerName(2)
    /\ au_renamed[1].name_map[au_col.attachments[2].sim_name] = ServerName(1)
    /\ au_renamed[1].sim_nodes[ServerName(2)].name = ServerName(2)
    /\ au_renamed[1].attachments[1].sim_name = ServerName(1)

----------------------------------------------------------------------------
\* The addresses a pool can hand out: the addresses of the gateway's subnet
\* but the gateway, and but the network and broadcast address unless the prefix
\* is /31 or /32.
SubnetOf(gen) ==
    gen.network .. (gen.network + Pow2(AddrBits - gen.prefixlen) - 1)

Usable(gen) ==
    {h \in SubnetOf(gen) :
        /\ h # gen.gateway
        /\ gen.prefixlen < AddrBits - 1 =>
              /\ h # gen.network
              /\ h # gen.network + Pow2(AddrBits - gen.prefixlen) - 1}

\* The addresses of a pool that attachments of its VirtualNetwork carry.
Consumed(definition, gen) ==
    {a.ip_address[1].addr :
        a \in {x \in Range(au_col.attachments) :
                  /\ x.virtual_network = definition.virtual_network
                  /\ HasIp(x)
                  /\ x.ip_address[1].addr \in SubnetOf(gen)}}

HasPool(definition) == ~IsNone(definition.ip_pool)

PoolOf(definition) == au_col.pools[definition.ip_pool[1]]

\* A match that is not skipped is being processed.
Attaching ==
    /\ au_pc = "match"
    /\ au_mi <= Len(au_matches)
    /\ ~PairSeen(au_col, CurDef, CurName)
    /\ ~EndpointMissing(CurInterface)

\* The step appended one attachment and the loop goes on without an error.
Attached ==
    /\ Len(au_col'.attachments) = Len(au_col.attachments) + 1
    /\ au_pc' = "match"
    /\ au_mi' = au_mi + 1
    /\ au_error' = ""

NewAttachment == au_col'.attachments[Len(au_col'.attachments)]

\* C21 as stated: when a match is attached from a pool built on a /31 or
\* smaller subnet, or from a pool whose addresses are all consumed, the
\* attachment is created without an IP, no error is raised and the
\* collection continues.
C21_AsStated ==
    [][(Attaching /\ HasPool(CurDef)
        /\ (\/ PoolOf(CurDef).prefixlen >= AddrBits - 1
            \/ Usable(PoolOf(CurDef)) \subseteq Consumed(CurDef, PoolOf(CurDef))))
       => (Attached /\ IsNone(NewAttachment.ip_address))]_vars

\* C21 (amended): when a match is attached, the attachment is created, no
\* error is raised and the collection continues; the attachment has no IP
\* exactly when its definition has no pool or every non-gateway address of
\* the pool is consumed, which is so from the start for a /32 pool and after
\* one allocation for a /31 pool.
C21_NoAddressWhenPoolConsumed ==
    [][Attaching
       => /\ Attached
          /\ IsNone(NewAttachment.ip_address)
             <=> (\/ ~HasPool(CurDef)
                  \/ Usable(PoolOf(CurDef)) \subseteq Consumed(CurDef, PoolOf(CurDef)))
          /\ (HasPool(CurDef) /\ PoolOf(CurDef).prefixlen = AddrBits)
             => IsNone(NewAttachment.ip_address)]_vars

\* The collection of VirtualNetwork t ended: the /31 pool gave the first
\* interface its one non-gateway address and the second interface nothing,
\* and the /32 pool gave nothing.
C21_Witness ==
    /\ au_pc = "collected"
    /\ \E i, j, k \in 1..Len(au_raw) :
          /\ i < j
          /\ au_raw[i].vlan_name = <<"w">> /\ au_raw[j].vlan_name = <<"w">>
          /\ au_raw[i].ip_address = Some([addr |-> Net3 + 17, prefixlen |-> 31])
          /\ IsNone(au_raw[j].ip_address)
          /\ au_raw[k].vlan_name = <<"u">>
          /\ IsNone(au_raw[k].ip_address)

----------------------------------------------------------------------------
\* The address the k-th definition of the VirtualNetwork being processed
\* would be given next, before and after the step.
NextSeenBy(k) == GenNext(au_col.pools[au_defs[k].ip_pool[1]]).value

NextSeenAfterBy(k) == GenNext(au_col'.pools[au_defs[k].ip_pool[1]]).value

PooledDefinitions == {k \in 1..Len(au_defs) : HasPool(au_defs[k])}

\* The least address of a set of addresses, None for the empty set.
Least(S) ==
    IF S = {} THEN None ELSE Some(CHOOSE h \in S : \A other \in S : h <= other)

AddressOf(value) == IF IsNone(value) THEN None ELSE Some(value[1].addr)

\* C22 as stated: no cursor is shared between two VLAN definitions; an
\* allocation for one VLAN definition never changes the address another
\* definition is given next.
C22_AsStated ==
    [][Attaching =>
          \A k \in PooledDefinitions \ {au_di} :
              NextSeenAfterBy(k) = NextSeenBy(k)]_vars

\* C22 (amended): a cursor is owned by one bridge domain of one
\* VirtualNetwork.  An allocation for a VLAN definition changes the address
\* given next to exactly the definitions on its own bridge domain, and the
\* pools of a VirtualNetwork start at their first usable address whatever was
\* consumed for the VirtualNetworks before it, also under the same
\* bridge-domain name.
C22_CursorPerBridgeDomain ==
    [][/\ Attaching =>
             \A k \in PooledDefinitions :
                 (NextSeenAfterBy(k) # NextSeenBy(k))
                 <=> /\ HasPool(CurDef)
                     /\ au_defs[k].ip_pool = CurDef.ip_pool
                     /\ ~IsNone(NextSeenBy(k))
       /\ (au_pc = "vn" /\ au_pc' = "def") =>
             \A k \in 1..Len(au_defs') :
                 HasPool(au_defs'[k]) =>
                     LET gen == au_col'.pools[au_defs'[k].ip_pool[1]] IN
                     AddressOf(GenNext(gen).value) = Least(Usable(gen))]_vars

\* VirtualNetwork s was collected after VirtualNetwork t: its first
\* definition on bridge domain z drew the one address of the /30 for
\* interface e1, although t had drawn from its own bridge domain z before,
\* and its second definition on z found the cursor at its end.
C22_Witness ==
    /\ au_pc = "collected"
    /\ \E i, j, k \in 1..Len(au_raw) :
          /\ i < j /\ j < k
          /\ au_raw[i].virtual_network = <<"t">>
          /\ au_raw[i].ip_address = Some([addr |-> Net3 + 17, prefixlen |-> 31])
          /\ au_raw[j].virtual_network = <<"s">>
          /\ au_raw[j].vlan_name = <<"m">>
          /\ au_raw[j].ip_address = Some([addr |-> Net3 + 2, prefixlen |-> 30])
          /\ au_raw[k].virtual_network = <<"s">>
          /\ au_raw[k].vlan_name = <<"s">>
          /\ au_raw[k].interface_name = au_raw[j].interface_name
          /\ IsNone(au_raw[k].ip_address)

----------------------------------------------------------------------------
\* The validated nodes, the attachments associated with a node in topology
\* order, and the VLAN rendering resolves for the node.
ValidatedNodes == {ps_nodes[i][2] : i \in 1..Len(ps_nodes)}

AssociatedWith(node) ==
    LET Same(a) == a.sim_node = node.name IN SelectSeq(ps_attachments, Same)

EffectiveVlan(node) == _select_vlan(node, AssociatedWith(node))

WithVlan(node) ==
    LET HasVlan(a) == Given(a.vlan) IN SelectSeq(AssociatedWith(node), HasVlan)

Validated == ps_pc = "done" /\ ps_error = NoError

\* C23 as stated: the effective VLAN of a node is the node's own VLAN when
\* that is set, and otherwise the VLAN of the node's first associated
\* attachment in topology order, absent when that attachment has no VLAN.
C23_AsStated ==
    Validated =>
        \A node \in ValidatedNodes :
            EffectiveVlan(node) =
                IF Given(NodeVlan(node)) THEN NodeVlan(node)
                ELSE IF AssociatedWith(node) = <<>> THEN None
                ELSE IF Given(AssociatedWith(node)[1].vlan)
                     THEN AssociatedWith(node)[1].vlan
                     ELSE None

\* C23 (amended): the effective VLAN of a node is the node's own VLAN when
\* that is set, and otherwise the VLAN of the first of the node's associated
\* attachments, in topology order, that has a VLAN; it is absent when none
\* has.  The interface configuration rendered for the node carries it.
C23_EffectiveVlanIsFirstGiven ==
    Validated =>
        /\ \A node \in ValidatedNodes :
              EffectiveVlan(node) =
                  IF Given(NodeVlan(node)) THEN NodeVlan(node)
                  ELSE IF WithVlan(node) = <<>> THEN None
                  ELSE WithVlan(node)[1].vlan
        /\ \A c \in Range(_render_bundle(ParsedSpec).node_configs) :
              \E node \in ValidatedNodes :
                  node.name = c.name /\ c.vlan = EffectiveVlan(node)

\* Node a has no VLAN of its own, its first attachment has none either and
\* its second is on VLAN 10: the configuration rendered for a is on VLAN 10.
C23_Witness ==
    /\ Validated
    /\ Len(ps_attachments) = 2
    /\ ps_attachments[1].sim_node = <<"a">> /\ ~Given(ps_attachments[1].vlan)
    /\ ps_attachments[2].sim_node = <<"a">>
    /\ ps_attachments[2].vlan = Some(<<"1", "0">>)
    /\ \E c \in Range(_render_bundle(ParsedSpec).node_configs) :
          c.name = <<"a">> /\ c.vlan = Some(<<"1", "0">>)

----------------------------------------------------------------------------
\* The names of the validated SimNodeSpec records, in the order of the nodes
\* dict, and the entries of the raw simNodes list.
ValidatedNames == [i \in 1..Len(ps_nodes) |-> ps_nodes[i][2].name]

RawSimNodes == ps_raw[1].simNodes.items

SameRawName(i, j) ==
    /\ RawSimNodes[i].is_mapping /\ RawSimNodes[j].is_mapping
    /\ Get(RawSimNodes[i], "name").kind = "str"
    /\ Get(RawSimNodes[i], "name") = Get(RawSimNodes[j], "name")

\* C24: whenever parse_simulation_spec succeeds, the names of the validated
\* SimNodeSpec records are non-empty and pairwise distinct; an input whose
\* simNodes list is empty, or holds two entries with the same name, raises
\* SpecError.
C24_ValidatedNamesDistinct ==
    ps_pc = "done" =>
        /\ ps_error = NoError =>
              /\ ValidatedNames # <<>>
              /\ \A i \in 1..Len(ValidatedNames) : ValidatedNames[i] # <<>>
              /\ PairwiseDistinct(ValidatedNames)
        /\ (\/ RawSimNodes = <<>>
            \/ \E i, j \in 1..Len(RawSimNodes) : i # j /\ SameRawName(i, j))
           => ps_error # NoError

----------------------------------------------------------------------------
\* The sim node _collect_sim_pods waited for last: its deadline is the latest
\* of the pod wait's deadlines.
LastWaited == wf_bundle.sim_nodes[Len(wf_bundle.sim_nodes)]

\* The configuration command failed with a device-not-visible error before
\* the deadline, and is tried again after the sleep.
Retried == wf_pc = "exec" /\ wf_pc' = "exec"

\* C25 as stated: a configuration command that fails because the device is
\* not yet visible is retried only until the deadline that bounds the
\* workflow's pod wait has passed, not until a deadline of its own.
C25_AsStated ==
    [][Retried => LastWaited \notin wf_late]_vars

\* The error texts that tell that the device is not yet visible in the pod.
DevicePhrases == {"Device \"", "Cannot find device", "does not exist"}

\* C25 (amended): the retry loop of every device's configuration command
\* has a deadline of its own, fixed at 180 s (the length of the pod wait's
\* deadline) when the loop is entered.  The command is tried again, after a
\* sleep, exactly when it failed with a device-not-visible error before that
\* deadline; any other failure, and a device-not-visible failure once the
\* deadline has passed, is raised.
C25_RetryUntilOwnDeadline ==
    [][/\ (wf_pc # "exec" /\ wf_pc' = "exec") =>
             /\ wf_remaining' = CONFIG_RETRY_SECONDS
             /\ CONFIG_RETRY_SECONDS = POD_WAIT_SECONDS
       /\ Retried =>
             /\ wf_exec_error' \in DevicePhrases
             /\ wf_remaining > 0
             /\ wf_remaining' < wf_remaining
             /\ wf_error' = NoFailure
       /\ (wf_pc = "exec" /\ wf_pc' # "exec") =>
             /\ wf_pc' \in {"failed", "config", "show"}
             /\ wf_pc' = "failed" <=> wf_exec_error' # ""
             /\ wf_pc' = "failed" =>
                   /\ wf_error' = CommandError("kubectl exec sh -c")
                   /\ wf_exec_error' \in DevicePhrases => wf_remaining' = 0]_vars

\* The pod of the last sim node became Ready only after the pod wait's
\* deadline, and yet the configuration command of the second device is being
\* retried, inside its own 180 s.
C25_Witness ==
    /\ wf_pc = "exec"
    /\ wf_i = 2
    /\ LastWaited \in wf_late
    /\ wf_remaining > 0
    /\ wf_remaining < CONFIG_RETRY_SECONDS

----------------------------------------------------------------------------
\* ---- the in-pod configuration command run against one pod ----
\*
\* _configure_linux_interfaces pushes command_str into the pod with
\* "kubectl exec ... sh -c".  The pod's links are the environment of that
\* command: a device is present or not, up or down, and carries a set of
\* addresses.  Each step has the effect the ip tool gives it; the steps are
\* joined by "&&", so the first failing step ends the command.

Link(up, addrs) == [up |-> up, addrs |-> addrs]

WithLink(links, dev, link) ==
    [d \in DOMAIN links \cup {dev} |-> IF d = dev THEN link ELSE links[d]]

Outcome(ok, links) == [ok |-> ok, links |-> links]

\* ip link set DEV up
LinkSetUp(links, dev) ==
    IF dev \in DOMAIN links
    THEN Outcome(TRUE, WithLink(links, dev, Link(TRUE, links[dev].addrs)))
    ELSE Outcome(FALSE, links)

\* ip link show DEV
LinkShow(links, dev) == Outcome(dev \in DOMAIN links, links)

\* ip link add link PARENT name DEV type vlan id ID: the new device is down
\* and has no address; the command fails when DEV exists already.
LinkAdd(links, parent, dev) ==
    IF parent \in DOMAIN links /\ dev \notin DOMAIN links
    THEN Outcome(TRUE, WithLink(links, dev, Link(FALSE, {})))
    ELSE Outcome(FALSE, links)

\* ip addr flush dev DEV
AddrFlush(links, dev) ==
    IF dev \in DOMAIN links
    THEN Outcome(TRUE, WithLink(links, dev, Link(links[dev].up, {})))
    ELSE Outcome(FALSE, links)

\* ip addr add ADDR dev DEV: fails when DEV carries ADDR already.
AddrAdd(links, dev, addr) ==
    IF dev \in DOMAIN links /\ addr \notin links[dev].addrs
    THEN Outcome(TRUE, WithLink(links, dev,
                                Link(links[dev].up, links[dev].addrs \cup {addr})))
    ELSE Outcome(FALSE, links)

\* One step of command_str(config) run on links.
ApplyStep(config, step, links) ==
    CASE step.op = "ip link set up" -> LinkSetUp(links, step.dev)
      [] step.op = "ip link show || ip link add link type vlan id" ->
            IF LinkShow(links, step.dev).ok
            THEN LinkShow(links, step.dev)
            ELSE LinkAdd(links, config.interface, step.dev)
      [] step.op = "ip link add link type vlan id" ->
            LinkAdd(links, config.interface, step.dev)
      [] step.op = "ip addr flush dev" -> AddrFlush(links, step.dev)
      [] step.op = "ip addr add dev" -> AddrAdd(links, step.dev, step.arg)

\* The steps of command_str(config) from the i-th on, run on links.
RECURSIVE RunFrom(_, _, _)
RunFrom(config, i, links) ==
    IF i > Len(command_str(config))
    THEN Outcome(TRUE, links)
    ELSE LET o == ApplyStep(config, command_str(config)[i], links) IN
         IF o.ok THEN RunFrom(config, i + 1, o.links) ELSE o

\* The device the address is configured on.
TargetOf(config) ==
    IF Given(config.vlan)
    THEN config.interface \o <<".">> \o config.vlan[1]
    ELSE config.interface

Eth1 == <<"e", "t", "h", "1">>

Configured == <<"1", "/", "2", "4">>

Stale == <<"9", "/", "2", "4">>

PodConfigs ==
    { NodeInterfaceConfig(<<"a">>, Eth1, Configured, vlan) :
        vlan \in {None, Some(<<"1", "0">>)} }

LinkStates == {Link(up, addrs) : up \in BOOLEAN, addrs \in SUBSET {Configured, Stale}}

\* The links a pod can have before the command runs: the interface may not
\* be visible yet; a sub-interface may be left over from an earlier run.
PodLinks(config) ==
    LET Sub == Eth1 \o <<".">> \o <<"1", "0">> IN
    {[d \in {} |-> Link(FALSE, {})]}
    \cup {[d \in {Eth1} |-> l] : l \in LinkStates}
    \cup {[d \in {Eth1, Sub} |-> IF d = Eth1 THEN l ELSE v] :
            l \in LinkStates, v \in LinkStates}

PodInit ==
    /\ pd_pc = "run"
    /\ pd_config \in PodConfigs
    /\ pd_init \in PodLinks(pd_config)
    /\ pd_links = pd_init
    /\ pd_pass = 1
    /\ pd_step = 1
    /\ pd_cut = -1

\* The next step of the command succeeds.
RunStep ==
    /\ pd_pc = "run"
    /\ pd_step <= Len(command_str(pd_config))
    /\ LET o == ApplyStep(pd_config, command_str(pd_config)[pd_step], pd_links) IN
         /\ o.ok
         /\ pd_links' = o.links
    /\ pd_step' = pd_step + 1
    /\ UNCHANGED <<pd_pc, pd_config, pd_init, pd_pass, pd_cut, notPod>>

\* The next step fails: "&&" ends the command with its exit status.
StepFails ==
    /\ pd_pc = "run"
    /\ pd_step <= Len(command_str(pd_config))
    /\ LET o == ApplyStep(pd_config, command_str(pd_config)[pd_step], pd_links) IN
         /\ ~o.ok
         /\ pd_links' = o.links
    /\ pd_pc' = "failed"
    /\ UNCHANGED <<pd_config, pd_init, pd_pass, pd_step, pd_cut, notPod>>

\* The first run is cut short between two steps (the exec session ends), and
\* the command is run again from its first step.
CutShort ==
    /\ pd_pc = "run"
    /\ pd_pass = 1
    /\ pd_step <= Len(command_str(pd_config))
    /\ pd_cut' = pd_step - 1
    /\ pd_pass' = 2
    /\ pd_step' = 1
    /\ UNCHANGED <<pd_pc, pd_config, pd_init, pd_links, notPod>>

\* The first run has completed; the command is run again.
RunAgain ==
    /\ pd_pc = "run"
    /\ pd_pass = 1
    /\ pd_step > Len(command_str(pd_config))
    /\ pd_pass' = 2
    /\ pd_step' = 1
    /\ UNCHANGED <<pd_pc, pd_config, pd_init, pd_links, pd_cut, notPod>>

\* The second run has completed.
Finish ==
    /\ pd_pc = "run"
    /\ pd_pass = 2
    /\ pd_step > Len(command_str(pd_config))
    /\ pd_pc' = "done"
    /\ UNCHANGED <<pd_config, pd_init, pd_links, pd_pass, pd_step, pd_cut, notPod>>

InitPod ==
    PodInit /\ SelOff /\ IpOff /\ AutoOff /\ MergeOff /\ ParseOff /\ WorkflowOff

NextPod ==
    \/ RunStep
    \/ StepFails
    \/ CutShort
    \/ RunAgain
    \/ Finish

SpecPod == InitPod /\ [][NextPod]_vars

\* C26: running the in-pod configuration command a second time against the
\* same pod, after a first run that completed or was cut short, never fails
\* where a single run succeeds (in particular not because the VLAN
\* sub-interface exists already), and leaves the links a single run leaves:
\* the configured device present and up, carrying exactly the configured
\* address.
C26_SecondRunLeavesSingleRunState ==
    LET single == RunFrom(pd_config, 1, pd_init) IN
    /\ pd_pc = "failed" =>
          /\ ~single.ok
          /\ pd_config.interface \notin DOMAIN pd_init
    /\ pd_pc = "done" =>
          /\ single.ok
          /\ pd_links = single.links
          /\ TargetOf(pd_config) \in DOMAIN pd_links
          /\ pd_links[TargetOf(pd_config)].up
          /\ pd_links[TargetOf(pd_config)].addrs = {pd_config.ip_address}

\* A second run has completed on a pod whose VLAN sub-interface the first
\* run created before it was cut short.
C26_Witness ==
    /\ pd_pc = "done"
    /\ Given(pd_config.vlan)
    /\ TargetOf(pd_config) \notin DOMAIN pd_init
    /\ pd_cut >= 2
    /\ pd_cut < Len(command_str(pd_config))

----------------------------------------------------------------------------
\* ---- apply_simulation under fair scheduling ----
\*
\* One run of apply_simulation on a bundle of two sim nodes.  The program
\* takes its next step whenever it has one: every external command returns
\* (with an outcome and after a time the environment chooses) and
\* time.sleep(2) lets the clock advance.

ApplyInit ==
    /\ WorkflowInit
    /\ wf_op = "apply"
    /\ wf_bundle.sim_nodes = <<"a", "b">>

InitApply ==
    ApplyInit /\ SelOff /\ IpOff /\ AutoOff /\ MergeOff /\ ParseOff /\ PodOff

NextApply ==
    \/ WriteManifest
    \/ DryRun
    \/ RealRun
    \/ BeginWait
    \/ LoopCheck
    \/ GetPod
    \/ WaitPod
    \/ EndCollect
    \/ BeginConfig
    \/ Exec
    \/ ShowState
    \/ EndConfig
    \/ DumpState

SpecApplyFair == InitApply /\ [][NextApply]_vars /\ WF_vars(NextApply)

\* apply_simulation has returned or raised.
Terminated == wf_pc \in {"done", "failed"}

\* C27: every run of apply_simulation ends, by returning or by raising: no
\* polling loop (pod wait, configuration retry) goes on forever.
C27_ApplyTerminates == <>Terminated

\* A run that ended after both kinds of loop had run up to their deadline:
\* a pod wait saw its pod Ready only after the deadline, and a configuration
\* retry ran out of time with the device still not visible.
C27_Witness ==
    /\ Terminated
    /\ wf_late # {}
    /\ wf_exec_error \in DevicePhrases

----------------------------------------------------------------------------
\* The raw_spec of the plan just returned.
PlanRaw == au_plan[1].raw_spec

SimNodeNamesOf(raw_spec) ==
    [i \in 1..Len(raw_spec.simNodes) |-> raw_spec.simNodes[i].name]

\* C28: whenever build_auto_plan returns, parse_simulation_spec accepts its
\* raw_spec: simNodes is non-empty and its names are server1..serverN, in
\* this order and pairwise distinct; topology is non-empty; every topology
\* entry's simNode names an entry of simNodes, and every simNodes entry is
\* referenced by at least one topology entry.
C28_PlanIsAccepted ==
    au_pc = "done" =>
        /\ PlanSpec.error = NoError
        /\ Len(PlanRaw.simNodes) > 0
        /\ \A i \in 1..Len(PlanRaw.simNodes) :
              SimNodeNamesOf(PlanRaw)[i] = ServerName(i)
        /\ PairwiseDistinct(SimNodeNamesOf(PlanRaw))
        /\ Len(PlanRaw.topology) > 0
        /\ \A i \in 1..Len(PlanRaw.topology) :
              PlanRaw.topology[i].simNode \in Range(SimNodeNamesOf(PlanRaw))
        /\ \A name \in Range(SimNodeNamesOf(PlanRaw)) :
              \E i \in 1..Len(PlanRaw.topology) :
                  PlanRaw.topology[i].simNode = name
        /\ Len(PlanSpec.spec[1].nodes) = Len(PlanRaw.simNodes)
        /\ Len(PlanSpec.spec[1].attachments) = Len(PlanRaw.topology)

----------------------------------------------------------------------------
\* The (kind, name) pairs of a list of resource summaries, in order.
Targets(summaries) ==
    [i \in 1..Len(summaries) |-> <<summaries[i].kind, summaries[i].name>>]

\* The bundle apply_simulation renders from raw_spec and asks etc to create.
AppliedBundle(raw) == _render_bundle(parse_simulation_spec(raw).spec[1])

\* The bundle remove_simulation renders from raw_spec and asks etc to delete.
RemovedBundle(raw) == _render_bundle(parse_simulation_spec(raw).spec[1])

\* A plausible slip: a rendered kind is missing from the table.
Mutant_kind_to_resource ==
    [kind \in {"SimNode", "SimLink"} |->
        CASE kind = "SimNode" -> "simnode"
          [] kind = "SimLink" -> "simlink"]

\* kind_to_resource of _verify_cleanup.
kind_to_resource ==
    [kind \in {"SimNode", "SimLink", "TopoLink"} |->
        CASE kind = "SimNode" -> "simnode"
          [] kind = "SimLink" -> "simlink"
          [] kind = "TopoLink" -> "topolink"]

\* The summaries _verify_cleanup queries: those whose kind has a resource.
Queried(summaries) ==
    SelectSeq(summaries, LAMBDA summary : summary.kind \in DOMAIN kind_to_resource)

----------------------------------------------------------------------------
\* A match that is skipped is being processed: its (VLAN label, interface)
\* pair was seen before, or its first member gives no endpoint.
Skipping ==
    /\ au_pc = "match"
    /\ au_mi <= Len(au_matches)
    /\ \/ PairSeen(au_col, CurDef, CurName)
       \/ EndpointMissing(CurInterface)

\* The attachments created so far by the definitions of the VirtualNetwork
\* being processed that hold the pool of bridge domain bd, in order of
\* creation.
CreatedFrom(bd) ==
    SelectSeq(au_col.attachments,
              LAMBDA a : \E d \in Range(au_defs) :
                            /\ d.ip_pool = Some(bd)
                            /\ d.virtual_network = a.virtual_network
                            /\ d.vlan_name = a.vlan_name)

\* The k-th usable address of a pool in ascending order, None when the pool
\* has fewer.
KthUsable(gen, k) ==
    IF k > Cardinality(Usable(gen)) THEN None
    ELSE Some(CHOOSE h \in Usable(gen) :
                 Cardinality({other \in Usable(gen) : other < h}) = k - 1)

\* C30: a matched interface that is skipped, because its (VLAN label,
\* interface) pair was seen before or because its first member gives no
\* endpoint, leaves every pool and the list of attachments unchanged; and an
\* attachment created from a pool carries the pool's k-th usable non-gateway
\* address (none when the pool has fewer than k), k being its rank among the
\* attachments created from that pool: the skipped matches do not count.
C30_SkipLeavesPoolUnchanged ==
    [][/\ Skipping =>
             /\ au_col'.pools = au_col.pools
             /\ au_col'.attachments = au_col.attachments
             /\ au_mi' = au_mi + 1
             /\ au_error' = ""
       /\ (Attaching /\ HasPool(CurDef)) =>
             AddressOf(NewAttachment.ip_address)
                = KthUsable(PoolOf(CurDef),
                            Len(CreatedFrom(CurDef.ip_pool[1])) + 1)]_vars

\* VirtualNetwork s is processed after m: interface e1 was skipped under VLAN
\* label m, which m had used for it already, and then attached under the
\* second definition on the same bridge domain, where it carries the first
\* usable address of the /30 pool.
C30_Witness ==
    /\ au_pc = "match"
    /\ CurDef.virtual_network = <<"s">>
    /\ CurDef.vlan_name = <<"s">>
    /\ \E a \in Range(au_col.attachments) :
          a.virtual_network = <<"m">> /\ a.interface_name = <<"e", "1">>
    /\ \A a \in Range(au_col.attachments) :
          a.virtual_network = <<"s">> => a.vlan_name # <<"m">>
    /\ \E a \in Range(au_col.attachments) :
          /\ a.virtual_network = <<"s">>
          /\ a.vlan_name = <<"s">>
          /\ a.interface_name = <<"e", "1">>
          /\ a.ip_address = Some([addr |-> Net3 + 2, prefixlen |-> 30])
====
